---- MODULE Spec2Model ----
(***************************************************************************)
(* KidSafe PC: the hosts-file blocking engine (HostsManager), its          *)
(* privileged write chain, and the polling reconciler of FirebaseService   *)
(* together with the block_rules table and the rule handlers of            *)
(* CoreService.                                                            *)
(*                                                                         *)
(* Strings are sequences of tokens (a token is an indivisible run of       *)
(* characters), a file content is the sequence of its lines, i.e. what     *)
(* strings.Split(content, "\n") returns; strings.Join(lines, "\n") is the  *)
(* inverse, so a content is never the empty sequence.                      *)
(***************************************************************************)
EXTENDS Naturals, Integers, Sequences, FiniteSets, Bags, TLC

VARIABLES
    hostsFile,        \* content of C:\Windows\System32\drivers\etc\hosts
    backupFile,       \* content of hosts.kidSafe_backup, or NoFile
    originalHosts,    \* HostsManager.originalHosts
    blockedDomains,   \* HostsManager.blockedDomains (keys of the map)
    hmState,          \* "new" before Initialize, "ready" after, "failed" if it failed
    rows,             \* the block_rules table: a bag of rows
    blockedUrls,      \* FirebaseService.blockedUrls, the last-seen remote map
    pollInterval,     \* pollInterval of the polling loop, in milliseconds
    consecutiveNoChanges,
    lastOp,           \* the operation that produced this state, with its outcome
    remote,           \* the blockedUrls map the remote store holds
    mutex,            \* HostsManager.mutex: the goroutine that holds it, or NoHolder
    calls,            \* for each goroutine, how far its HostsManager call has got
    ctxDone,          \* FirebaseService.ctx has been cancelled
    isListening,      \* FirebaseService.isListening
    loops,            \* for each polling loop, where its goroutine is
    sseClients,       \* CoreService.sseClients (keys of the map)
    sseMutex,         \* CoreService.sseMutex: its writer and its readers
    channels,         \* for each SSE client, the channel its handler made
    sse               \* for each SSE handler and each broadcast, where it is

hmVars == <<hostsFile, backupFile, originalHosts, blockedDomains, hmState>>
fsVars == <<rows, blockedUrls, pollInterval, consecutiveNoChanges>>
lockVars == <<mutex, calls>>
loopVars == <<ctxDone, isListening, loops>>
sseVars == <<sseClients, sseMutex, channels, sse>>
vars == <<hostsFile, backupFile, originalHosts, blockedDomains, hmState,
          rows, blockedUrls, pollInterval, consecutiveNoChanges, lastOp,
          remote, mutex, calls, ctxDone, isListening, loops,
          sseClients, sseMutex, channels, sse>>

----------------------------------------------------------------------------
(* Bounds of the model *)

\* longest hosts file (in lines) an operation of the HostsManager alone may
\* produce
MaxFileLen == 8
\* longest hosts file (in lines) an operation of the whole service may produce
MaxSystemFileLen == 12
\* most polls without a change that are followed
MaxNoChanges == 2
\* most messages the channel of an SSE client buffers
MaxChannelBuffer == 1
\* most rows the rule handlers may have in block_rules at a time
MaxManualRows == 1
\* the same, where rows for one domain are followed
MaxSyncRows == 2

\* the cycles one loop may start after the cancellation before the model
\* stops counting them
MaxFurtherCycles == 2

\* the longest raw string given to normalizeDomain, in tokens
MaxInputLen == 4
\* the polls without a change in a row the backoff is followed through
MaxBackoffPolls == 21
\* the longest hosts file of the specification of single statements
MaxStepFileLen == 14
\* longest line (in tokens) an operation may produce
MaxLineLen == 8
\* a failed in-place write keeps at most this many lines of the new content
MaxCut == 1

----------------------------------------------------------------------------
(* Tokens and strings *)

SP == " "
CR == "\r"
BOM == "<BOM>"
QUOTE == "<quote>"
BACKTICK == "<backtick>"
WWW == "www."
BlockedIP == "127.0.0.1"
StartMark == "KidSafe PC Blocked Domains - START"
EndMark == "KidSafe PC Blocked Domains - END"
NoFile == <<>>
EmptyLine == <<>>

StartLine == <<"#", SP, "===", SP, StartMark, SP, "===">>
EndLine == <<"#", SP, "===", SP, EndMark, SP, "===">>

\* strings.ToLower, token by token
ToLowerTok(t) ==
    CASE t = "A.COM" -> "a.com"
      [] t = "B.COM" -> "b.com"
      [] t = "WWW." -> "www."
      [] OTHER -> t

ToLower(s) == [i \in 1..Len(s) |-> ToLowerTok(s[i])]

IsSpaceTok(t) == t \in {SP, CR}

RECURSIVE TrimLeft(_)
TrimLeft(s) ==
    IF s # <<>> /\ IsSpaceTok(Head(s)) THEN TrimLeft(Tail(s)) ELSE s

RECURSIVE TrimRight(_)
TrimRight(s) ==
    IF s # <<>> /\ IsSpaceTok(s[Len(s)])
    THEN TrimRight(SubSeq(s, 1, Len(s) - 1))
    ELSE s

\* strings.TrimSpace
TrimSpace(s) == TrimRight(TrimLeft(s))

\* strings.HasPrefix(s, t) for a one-token prefix
HasPrefix(s, t) == s # <<>> /\ Head(s) = t

\* strings.Contains(line, t) for a one-token needle
Contains(line, t) == \E i \in 1..Len(line) : line[i] = t

\* F(v), with v evaluated once
Let(v, F(_)) == CHOOSE r \in {F(x) : x \in {v}} : TRUE

\* string concatenation of two contents: the last line of c continues with
\* the first line of d
Cat(c, d) ==
    Let(c, LAMBDA cc :
        SubSeq(cc, 1, Len(cc) - 1) \o <<cc[Len(cc)] \o d[1]>> \o Tail(d))

\* strings.Fields: the maximal runs of non-space tokens
RECURSIVE FieldsFrom(_, _)
FieldsFrom(s, cur) ==
    IF s = <<>>
    THEN IF cur = <<>> THEN <<>> ELSE <<cur>>
    ELSE IF IsSpaceTok(Head(s))
         THEN (IF cur = <<>> THEN <<>> ELSE <<cur>>) \o FieldsFrom(Tail(s), <<>>)
         ELSE FieldsFrom(Tail(s), Append(cur, Head(s)))

Fields(s) == FieldsFrom(s, <<>>)

\* the orders in which a Go map with key set S can be ranged over
RECURSIVE Orders(_)
Orders(S) ==
    IF S = {} THEN {<<>>}
    ELSE UNION {{<<x>> \o o : o \in Orders(S \ {x})} : x \in S}

\* the orders a specification follows a map range in: all of them, or one
RangeOrders(S, which) ==
    IF which = "all" THEN Orders(S) ELSE {CHOOSE o \in Orders(S) : TRUE}

\* the file sizes the model follows
WithinBounds(c, maxLen) ==
    /\ Len(c) <= maxLen
    /\ \A i \in 1..Len(c) : Len(c[i]) <= MaxLineLen

----------------------------------------------------------------------------
(* HostsManager: section handling *)

RECURSIVE CleanLines(_, _)
CleanLines(lines, inKidSafeSection) ==
    IF lines = <<>> THEN <<>>
    ELSE IF Contains(Head(lines), StartMark) THEN CleanLines(Tail(lines), TRUE)
    ELSE IF Contains(Head(lines), EndMark) THEN CleanLines(Tail(lines), FALSE)
    ELSE IF ~inKidSafeSection
         THEN <<Head(lines)>> \o CleanLines(Tail(lines), inKidSafeSection)
         ELSE CleanLines(Tail(lines), inKidSafeSection)

\* a cleanKidSafeSection that removes nothing
cleanKidSafeSection_KeepAll(content) == content

\* strings.Join(nil, "\n") is "", whose Split is one empty line
JoinLines(lines) == IF lines = <<>> THEN <<EmptyLine>> ELSE lines

cleanKidSafeSection(content) == JoinLines(CleanLines(content, FALSE))

\* an entry that lacks the address
EntryText_NoAddress(domain) == <<domain, EmptyLine>>

\* fmt.Sprintf("%s %s\n", BlockedIP, domain)
EntryText(domain) == <<<<BlockedIP, SP>> \o domain, EmptyLine>>

RECURSIVE AppendEntries(_, _)
AppendEntries(content, order) ==
    IF order = <<>> THEN content
    ELSE AppendEntries(Cat(content, EntryText(Head(order))), Tail(order))

\* the content updateHostsFile hands to writeHostsFile, the map being ranged
\* over in the given order
DesiredContent(currentContent, order) ==
    LET cleaned == cleanKidSafeSection(currentContent)
        opened == Cat(cleaned, <<EmptyLine, EmptyLine, StartLine, EmptyLine>>)
        filled == AppendEntries(opened, order)
    IN  Cat(filled, <<EndLine, EmptyLine>>)

----------------------------------------------------------------------------
(* HostsManager: the write chain *)

\* What the environment does to each step of one writeHostsFile call; "-"
\* stands for a step the call never reaches.
\*   direct, icacls: os.WriteFile on the hosts file: "ok", "open" (the open
\*     fails, the file is untouched) or "partial" (the file was truncated and
\*     the write failed after cut lines)
\*   temp, roboTemp: os.WriteFile of the temporary file
\*   rename: os.Rename of the temporary file onto the hosts file
\*   ps, robo: the exit status of the powershell / robocopy command
Outcomes ==
    [direct : {"ok", "open", "partial"}, temp : {"ok", "fail", "-"},
     rename : {"ok", "fail", "-"}, ps : {"ok", "fail", "-"},
     roboTemp : {"ok", "fail", "-"}, robo : {"ok", "fail", "-"},
     icacls : {"ok", "open", "partial"}, cut : 0..MaxCut]

Reached2(w) == w.direct # "ok"
Reached3(w) == Reached2(w) /\ ~(w.temp = "ok" /\ w.rename = "ok")
Reached4(w) == Reached3(w) /\ w.ps # "ok"

\* one record per distinguishable run of the chain; the outcome the fifth
\* strategy would have is part of the environment also when the fourth
\* returns without getting to it
WriteEnv ==
    {w \in Outcomes :
        /\ (w.temp = "-") <=> ~Reached2(w)
        /\ (w.rename = "-") <=> ~(Reached2(w) /\ w.temp = "ok")
        /\ (w.ps = "-") <=> ~Reached3(w)
        /\ (w.roboTemp = "-") <=> ~Reached4(w)
        /\ (w.robo = "-") <=> ~(Reached4(w) /\ w.roboTemp = "ok")
        /\ (~Reached4(w) \/ w.robo = "ok") => w.icacls = "ok"
        /\ ~(w.direct = "partial"
             \/ (Reached4(w) /\ w.robo # "ok" /\ w.icacls = "partial"))
           => w.cut = 0}

\* the two runs the section logic is followed under: the first strategy
\* writes the file, or no strategy can touch it
EffectEnv ==
    {w \in WriteEnv :
        \/ w.direct = "ok"
        \/ w.direct = "open" /\ w.temp = "fail" /\ w.ps = "fail"
           /\ w.roboTemp = "fail" /\ w.icacls = "ok"}

\* os.WriteFile truncates, then writes: a failure in between leaves a prefix
Truncated(content, cut) ==
    LET n == IF cut < Len(content) THEN cut ELSE Len(content) - 1
    IN  SubSeq(content, 1, n) \o <<EmptyLine>>

\* os.WriteFile(WindowsHostsPath, content): <<error, file afterwards>>
WriteFileResult(how, cut, content, cur) ==
    CASE how = "ok" -> [ok |-> TRUE, file |-> content]
      [] how = "open" -> [ok |-> FALSE, file |-> cur]
      [] OTHER -> [ok |-> FALSE, file |-> Truncated(content, cut)]

RECURSIVE EscapeLine(_)
EscapeLine(line) ==
    IF line = <<>> THEN <<>>
    ELSE IF Head(line) \in {QUOTE, BACKTICK}
         THEN <<Head(line), Head(line)>> \o EscapeLine(Tail(line))
         ELSE <<Head(line)>> \o EscapeLine(Tail(line))

\* what the Out-File command (-Encoding UTF8 -Force) leaves in the file: the
\* escaped text of the here-string behind a byte order mark, and a final CRLF
PowerShellFile(content) ==
    LET escaped == [i \in 1..Len(content) |-> EscapeLine(content[i])]
    IN  Cat(Cat(<<<<BOM>>>>, escaped), <<<<CR>>, EmptyLine>>)

writeHostsWithPowerShell(content, cur, w) ==
    IF w.ps = "ok"
    THEN [ok |-> TRUE, file |-> PowerShellFile(content)]
    ELSE [ok |-> FALSE, file |-> cur]

writeHostsWithIcacls(content, cur, w) ==
    WriteFileResult(w.icacls, w.cut, content, cur)

\* the result of the file-copy strategy, and whether it went on to icacls
writeHostsWithRobocopy(content, cur, w) ==
    IF w.roboTemp # "ok"
    THEN [ok |-> FALSE, file |-> cur, icacls |-> FALSE]
    ELSE IF w.robo = "ok"
         THEN [ok |-> TRUE, file |-> content, icacls |-> FALSE]
         ELSE LET r == writeHostsWithIcacls(content, cur, w)
              IN  [ok |-> r.ok, file |-> r.file, icacls |-> TRUE]

\* writeHostsFile(content) on a hosts file holding cur: the error, the file
\* afterwards and the strategies attempted, in order
writeHostsFile(content, cur, w) ==
    LET s1 == WriteFileResult(w.direct, w.cut, content, cur)
    IN
    IF s1.ok THEN [ok |-> TRUE, file |-> s1.file, tried |-> <<"direct">>]
    ELSE IF w.temp = "ok" /\ w.rename = "ok"
    THEN [ok |-> TRUE, file |-> content, tried |-> <<"direct", "temp">>]
    ELSE LET s3 == writeHostsWithPowerShell(content, s1.file, w)
         IN
         IF s3.ok
         THEN [ok |-> TRUE, file |-> s3.file,
               tried |-> <<"direct", "temp", "powershell">>]
         ELSE LET s4 == writeHostsWithRobocopy(content, s3.file, w)
              IN  [ok |-> s4.ok, file |-> s4.file,
                   tried |-> <<"direct", "temp", "powershell", "robocopy">>
                             \o (IF s4.icacls THEN <<"icacls">> ELSE <<>>)]

----------------------------------------------------------------------------
(* HostsManager: operations, as functions of the current state and of what  *)
(* the environment does during the call                                     *)

\* bufio.ScanLines drops one trailing carriage return
DropCR(line) ==
    IF line # <<>> /\ line[Len(line)] = CR
    THEN SubSeq(line, 1, Len(line) - 1)
    ELSE line

\* copyFile: every scanned line is written back with fmt.Fprintln
copyFile(src) ==
    LET body == IF src[Len(src)] = EmptyLine
                THEN SubSeq(src, 1, Len(src) - 1)
                ELSE src
    IN  [i \in 1..Len(body) |-> DropCR(body[i])] \o <<EmptyLine>>

\* the key set after hm.blockedDomains[domain] = true and its www variant
WithDomain(blocked, domain) ==
    blocked \cup {domain}
            \cup (IF ~HasPrefix(domain, WWW) THEN {<<WWW>> \o domain} ELSE {})

\* the key set AddBlockedDomain leaves in hm.blockedDomains
AddKeys(blocked, domain) == WithDomain(blocked, ToLower(TrimSpace(domain)))

\* the key set RemoveBlockedDomain leaves in hm.blockedDomains
RemoveKeys(blocked, domain) ==
    LET d == ToLower(TrimSpace(domain))
    IN  (blocked \ {d}) \ {<<WWW>> \o d}

\* the key set UpdateBlockedDomains leaves in hm.blockedDomains
RECURSIVE UpdateKeys(_)
UpdateKeys(domains) ==
    IF domains = <<>> THEN {}
    ELSE LET d == ToLower(TrimSpace(Head(domains)))
         IN  IF d # <<>>
             THEN WithDomain(UpdateKeys(Tail(domains)), d)
             ELSE UpdateKeys(Tail(domains))

\* HostsManager.VerifyHostsFile on a file content: the map found
RECURSIVE VerifyLines(_, _, _)
VerifyLines(lines, inKidSafeSection, found) ==
    IF lines = <<>> THEN found
    ELSE
      LET line == TrimSpace(Head(lines))
          parts == Fields(line)
      IN
      IF Contains(line, StartMark) THEN VerifyLines(Tail(lines), TRUE, found)
      ELSE IF Contains(line, EndMark) THEN VerifyLines(Tail(lines), FALSE, found)
      ELSE IF inKidSafeSection /\ line # <<>> /\ ~HasPrefix(line, "#")
                /\ Len(parts) >= 2
           THEN Let(found, LAMBDA f :
                  VerifyLines(Tail(lines), inKidSafeSection,
                    [d \in (DOMAIN f) \cup {parts[2]} |->
                        IF d = parts[2] THEN parts[1] = <<BlockedIP>> ELSE f[d]]))
           ELSE VerifyLines(Tail(lines), inKidSafeSection, found)

VerifyHostsFile(content) == VerifyLines(content, FALSE, <<>>)

----------------------------------------------------------------------------
(* The inputs the model draws from *)

X == <<"x">>
Y == <<"y">>
A == <<"a.com">>
WwwA == <<WWW, "a.com">>
WwwB == <<WWW, "b.com">>
\* a comment line of the user's that happens to contain the marker text
NoteLine == <<"#", SP, EndMark>>
QuoteLine == <<"#", QUOTE>>

InitialFiles ==
    { <<QuoteLine, EmptyLine>>,                          \* plain
      <<X \o <<CR>>, Y>>,                                \* CRLF, no final newline
      <<X, StartLine, <<BlockedIP, SP>> \o WwwB, EndLine, Y, EmptyLine>>,
                                                         \* one section
      <<X, StartLine, Y, EmptyLine>>,                    \* START without END
      <<X, NoteLine, Y, EmptyLine>>,                     \* marker text in a line
      <<StartLine, EndLine, X, StartLine, EndLine>> }    \* two sections

DomainArgs == {<<SP, "A.COM">>, WwwA, <<>>}

DomainLists == {<<>>, <<WwwA>>, <<<<SP, "A.COM">>, <<>>>>}

----------------------------------------------------------------------------
(* HostsManager: actions. Args are the arguments a specification follows   *)
(* and Env what it follows of the environment: the runs of the write chain  *)
(* (runs), whether reading the hosts file fails (reads), the orders of a    *)
(* map range (orders), the longest file (maxLen) and the most rows of the   *)
(* rule handlers (maxRows).                                                 *)

Op(name, arg, ok, tried, w) ==
    [op |-> name, arg |-> arg, ok |-> ok, tried |-> tried, w |-> w]

\* no run of the chain: the operation returned before writing
NoEnv ==
    [direct |-> "-", temp |-> "-", rename |-> "-", ps |-> "-", roboTemp |-> "-",
     robo |-> "-", icacls |-> "-", cut |-> 0]

\* HostsManager.updateHostsFile with hm.blockedDomains already set to keys,
\* called by the operation name with the argument arg
updateHostsFile(keys, Env, name, arg) ==
    \E readErr \in Env.reads, order \in RangeOrders(keys, Env.orders) :
      \E content \in
            {DesiredContent(IF readErr THEN originalHosts ELSE hostsFile, order)} :
        /\ WithinBounds(content, Env.maxLen)
        /\ \E w \in Env.runs :
             \E r \in {writeHostsFile(content, hostsFile, w)} :
                /\ WithinBounds(r.file, Env.maxLen)
                /\ hostsFile' = r.file
                /\ blockedDomains' = keys
                /\ lastOp' = Op(name, arg, r.ok, r.tried, w)

\* Initialize as it would be if a hosts file that cannot be read were only
\* reported: the error is returned and the service goes on
Initialize_GoesOn ==
    /\ hmState = "new"
    /\ \E readErr, backupOk \in BOOLEAN :
         IF readErr
         THEN /\ hmState' = "ready"
              /\ lastOp' = Op("Initialize", <<>>, FALSE, <<>>, NoEnv)
              /\ UNCHANGED <<hostsFile, backupFile, originalHosts, blockedDomains>>
         ELSE /\ hmState' = "ready"
              /\ originalHosts' = hostsFile
              /\ backupFile' = IF backupOk THEN copyFile(hostsFile) ELSE backupFile
              /\ lastOp' = Op("Initialize", <<>>, TRUE, <<>>, NoEnv)
              /\ UNCHANGED <<hostsFile, blockedDomains>>
    /\ UNCHANGED <<fsVars, remote, sseVars, lockVars, loopVars>>

Initialize ==
    /\ hmState = "new"
    /\ \E readErr, backupOk \in BOOLEAN :
         IF readErr
         THEN /\ hmState' = "failed"
              /\ lastOp' = Op("Initialize", <<>>, FALSE, <<>>, NoEnv)
              /\ UNCHANGED <<hostsFile, backupFile, originalHosts, blockedDomains>>
         ELSE /\ hmState' = "ready"
              /\ originalHosts' = hostsFile
              /\ backupFile' = IF backupOk THEN copyFile(hostsFile) ELSE backupFile
              /\ lastOp' = Op("Initialize", <<>>, TRUE, <<>>, NoEnv)
              /\ UNCHANGED <<hostsFile, blockedDomains>>
    /\ UNCHANGED <<fsVars, remote, sseVars, lockVars, loopVars>>

AddBlockedDomain(Args, Env) ==
    /\ hmState = "ready"
    /\ \E domain \in Args :
         IF ToLower(TrimSpace(domain)) = <<>>
         THEN /\ lastOp' = Op("AddBlockedDomain", domain, FALSE, <<>>, NoEnv)
              /\ UNCHANGED <<hostsFile, blockedDomains>>
         ELSE updateHostsFile(AddKeys(blockedDomains, domain), Env,
                              "AddBlockedDomain", domain)
    /\ UNCHANGED <<backupFile, originalHosts, hmState>>
    /\ UNCHANGED <<fsVars, remote, sseVars, lockVars, loopVars>>

RemoveBlockedDomain(Args, Env) ==
    /\ hmState = "ready"
    /\ \E domain \in Args :
         updateHostsFile(RemoveKeys(blockedDomains, domain), Env,
                         "RemoveBlockedDomain", domain)
    /\ UNCHANGED <<backupFile, originalHosts, hmState>>
    /\ UNCHANGED <<fsVars, remote, sseVars, lockVars, loopVars>>

UpdateBlockedDomains(Lists, Env) ==
    /\ hmState = "ready"
    /\ \E domains \in Lists :
         updateHostsFile(UpdateKeys(domains), Env,
                         "UpdateBlockedDomains", domains)
    /\ UNCHANGED <<backupFile, originalHosts, hmState>>
    /\ UNCHANGED <<fsVars, remote, sseVars, lockVars, loopVars>>

RestoreOriginal(Env) ==
    /\ hmState = "ready"
    /\ IF backupFile # NoFile
       THEN \E copyOk \in BOOLEAN :
              IF copyOk
              THEN /\ hostsFile' = copyFile(backupFile)
                   /\ backupFile' = NoFile
                   /\ blockedDomains' = {}
                   /\ lastOp' = Op("RestoreOriginal", <<>>, TRUE, <<>>, NoEnv)
              ELSE /\ lastOp' = Op("RestoreOriginal", <<>>, FALSE, <<>>, NoEnv)
                   /\ UNCHANGED <<hostsFile, backupFile, blockedDomains>>
       ELSE \E w \in Env.runs :
              \E r \in {writeHostsFile(originalHosts, hostsFile, w)} :
                  /\ WithinBounds(r.file, Env.maxLen)
                  /\ hostsFile' = r.file
                  /\ blockedDomains' = IF r.ok THEN {} ELSE blockedDomains
                  /\ lastOp' = Op("RestoreOriginal", <<>>, r.ok, r.tried, w)
                  /\ UNCHANGED backupFile
    /\ UNCHANGED <<originalHosts, hmState>>
    /\ UNCHANGED <<fsVars, remote, sseVars, lockVars, loopVars>>

\* HostsManager.Cleanup, the rest of the program left aside
CleanupCall(Env) ==
    /\ hmState = "ready"
    /\ \E readErr \in BOOLEAN :
         IF readErr
         THEN /\ lastOp' = Op("Cleanup", <<>>, FALSE, <<>>, NoEnv)
              /\ UNCHANGED <<hostsFile, backupFile>>
         ELSE \E w \in Env.runs :
                \E r \in {writeHostsFile(cleanKidSafeSection(hostsFile), hostsFile, w)} :
                    /\ WithinBounds(r.file, Env.maxLen)
                    /\ hostsFile' = r.file
                    /\ backupFile' = IF r.ok THEN NoFile ELSE backupFile
                    /\ lastOp' = Op("Cleanup", <<>>, r.ok, r.tried, w)
    /\ UNCHANGED <<originalHosts, blockedDomains, hmState>>

Cleanup(Env) ==
    /\ CleanupCall(Env)
    /\ UNCHANGED <<fsVars, remote, sseVars, lockVars, loopVars>>

----------------------------------------------------------------------------
(* FirebaseService and CoreService: domains and the block_rules table       *)

\* pollInterval and maxInterval of the polling loop, in milliseconds
PollInterval == 2000
MaxInterval == 30000
\* polls without a change after which the interval starts to grow
NoChangeLimit == 5

FirebaseSync == "firebase-sync"
HTTPS == "https://"
HTTP == "http://"

\* strings.TrimPrefix(s, t) for a one-token prefix
TrimPrefix(s, t) == IF HasPrefix(s, t) THEN Tail(s) ELSE s

\* strings.Split(s, t)[0] for a one-token separator
RECURSIVE Before(_, _)
Before(s, t) ==
    IF s = <<>> \/ Head(s) = t THEN <<>> ELSE <<Head(s)>> \o Before(Tail(s), t)

\* FirebaseService.extractDomain
extractDomain(url) ==
    LET noScheme == TrimPrefix(TrimPrefix(url, HTTPS), HTTP)
        domain == Before(Before(TrimPrefix(noScheme, WWW), "/"), ":")
    IN  IF domain = <<>> \/ Contains(domain, SP) THEN <<>> ELSE domain

\* u.Host of url.Parse(r) for an r that starts with a scheme, or <<>> when
\* url.Parse fails (a space in the host) or the host is empty
ParsedHost(r) ==
    LET host == Before(Before(Before(Tail(r), "/"), "?"), "#")
    IN  IF Contains(host, SP) THEN <<>> ELSE host

\* normalizeDomain of main.go
normalizeDomain(raw) ==
    LET r0 == TrimSpace(ToLower(raw))
        r1 == IF HasPrefix(r0, HTTP) \/ HasPrefix(r0, HTTPS)
              THEN r0 ELSE <<HTTP>> \o r0
        r2 == IF ParsedHost(r1) = <<>>
              THEN Before(TrimPrefix(TrimPrefix(ToLower(raw), HTTP), HTTPS), "/")
              ELSE ParsedHost(r1)
        r3 == IF Contains(r2, ":") /\ Before(r2, ":") # <<>>
              THEN Before(r2, ":") ELSE r2
    IN  IF r0 = <<>> THEN <<>>
        ELSE TrimSpace(Before(Before(TrimPrefix(r3, WWW), "?"), "#"))

\* a row of block_rules (the id left out; is_active defaults to 1)
Row(domain, category) ==
    [domain |-> domain, category |-> category, is_active |-> TRUE]

\* the rows of a table that are in S
Select(table, S) == [r \in BagToSet(table) \cap S |-> CopiesIn(r, table)]

\* some order of the elements of a set
SeqOf(S) == CHOOSE o \in Orders(S) : TRUE

\* the keys of the records with status "active" of a remote map
ActiveKeys(data) == {k \in DOMAIN data : data[k].Status = "active"}

\* the urls the polling loop hands to updateHostsFile
ActiveUrls(data) ==
    LET keys == SeqOf(ActiveKeys(data))
        all == [i \in 1..Len(keys) |-> extractDomain(data[keys[i]].URL)]
    IN  SelectSeq(all, LAMBDA u : u # <<>>)

\* the inserts of FirebaseService.updateHostsFile
RECURSIVE InsertAll(_, _)
InsertAll(table, urls) ==
    IF urls = <<>> THEN table
    ELSE InsertAll(table (+) SetToBag({Row(Head(urls), FirebaseSync)}),
                   Tail(urls))

\* block_rules after the database part of FirebaseService.updateHostsFile
ReplaceFirebaseRows(table, urls) ==
    InsertAll(Select(table, {r \in BagToSet(table) :
                                r.category # FirebaseSync}), urls)

\* the list CoreService.syncRulesToHosts hands to UpdateBlockedDomains
ActiveRuleDomains(table) ==
    SeqOf({normalizeDomain(r.domain) :
              r \in {x \in BagToSet(table) : x.is_active}} \ {<<>>})

\* the first loop of syncToLocalDatabase: a row for each active domain that
\* has none
RECURSIVE InsertMissing(_, _)
InsertMissing(table, domains) ==
    IF domains = <<>> THEN table
    ELSE IF Row(Head(domains), FirebaseSync) \in BagToSet(table)
         THEN InsertMissing(table, Tail(domains))
         ELSE InsertMissing(table (+) SetToBag({Row(Head(domains), FirebaseSync)}),
                            Tail(domains))

\* block_rules after FirebaseService.syncToLocalDatabase
syncToLocalDatabase(table, firebaseUrls) ==
    LET domains == ActiveUrls(firebaseUrls)
        active == {domains[i] : i \in 1..Len(domains)}
        inserted == InsertMissing(table, domains)
    IN  Select(inserted,
               {r \in BagToSet(inserted) :
                   ~(r.category = FirebaseSync /\ r.is_active
                     /\ r.domain \notin active)})

\* nobody holds HostsManager.mutex
NoHolder == "nobody"

\* the goroutines that call into the HostsManager: the polling loop and a
\* request handler
Goroutines == {"poller", "api"}

\* a goroutine that is not inside a call of the HostsManager
NoCall ==
    [pc |-> "idle", op |-> "-", arg |-> <<>>, read |-> <<>>, content |-> <<>>]

\* the loops FirebaseService.Start launches
Loops == {"blockedUrls", "timeRules", "pcStatus"}

\* a loop whose goroutine has not been launched: no tick is waiting in the
\* channel of its ticker, and it has started no cycle since the cancellation
NoLoop == [pc |-> "notStarted", tick |-> FALSE, further |-> 0]

\* the SSE clients that connect, and the goroutines that broadcast
Clients == {"c1", "c2"}
Broadcasters == {"b1", "b2"}

\* a channel no handler has made yet
NoChannel == [made |-> FALSE, buf |-> 0, closed |-> FALSE]

\* a handler before its request, and a broadcast that has not begun
NoHandler == [pc |-> "new", cur |-> "-", todo |-> {}]
NoBroadcast == [pc |-> "idle", cur |-> "-", todo |-> {}]

\* NewCoreService: an empty map of clients, nobody in sseMutex
SseInit ==
    /\ sseClients = {}
    /\ sseMutex = [writer |-> NoHolder, readers |-> {}]
    /\ channels = [c \in Clients |-> NoChannel]
    /\ sse = [g \in Clients \cup Broadcasters |->
                 IF g \in Clients THEN NoHandler ELSE NoBroadcast]

HmInit(Files) ==
    /\ mutex = NoHolder
    /\ calls = [g \in Goroutines |-> NoCall]
    /\ hostsFile \in Files
    /\ backupFile = NoFile
    /\ originalHosts = <<EmptyLine>>
    /\ blockedDomains = {}
    /\ hmState = "new"
    /\ lastOp = Op("NewHostsManager", <<>>, TRUE, <<>>, NoEnv)

FsInit ==
    /\ rows = EmptyBag
    /\ blockedUrls = <<>>
    /\ pollInterval = PollInterval
    /\ consecutiveNoChanges = 0
    /\ remote = <<>>
    /\ ctxDone = FALSE
    /\ isListening = FALSE
    /\ loops = [l \in Loops |-> NoLoop]
    /\ SseInit

----------------------------------------------------------------------------
(* FirebaseService: the polling loop; CoreService: the rule handlers        *)

\* what ref.Get returns for one candidate path
PathError == [kind |-> "error", urls |-> <<>>]
PathEmpty == [kind |-> "empty", urls |-> <<>>]
PathData(urls) == [kind |-> "data", urls |-> urls]

\* a loop over the paths that takes the first answer, empty or not
RECURSIVE FoundData_FirstAnswer(_)
FoundData_FirstAnswer(results) ==
    IF results = <<>> THEN [found |-> FALSE, urls |-> <<>>]
    ELSE IF Head(results).kind # "error"
         THEN [found |-> TRUE, urls |-> Head(results).urls]
         ELSE FoundData_FirstAnswer(Tail(results))

\* a loop over the paths that gives up at the first error
RECURSIVE FoundData_AbortOnError(_)
FoundData_AbortOnError(results) ==
    IF results = <<>> \/ Head(results).kind = "error"
    THEN [found |-> FALSE, urls |-> <<>>]
    ELSE IF Head(results).kind = "data" /\ DOMAIN Head(results).urls # {}
         THEN [found |-> TRUE, urls |-> Head(results).urls]
         ELSE FoundData_AbortOnError(Tail(results))

\* foundData after the loop over the paths: the first map that is not empty;
\* found is false for a foundData that is nil
RECURSIVE FoundData(_)
FoundData(results) ==
    IF results = <<>> THEN [found |-> FALSE, urls |-> <<>>]
    ELSE IF Head(results).kind = "data" /\ DOMAIN Head(results).urls # {}
         THEN [found |-> TRUE, urls |-> Head(results).urls]
         ELSE FoundData(Tail(results))

\* a change detection that compares the urls only
Changed_UrlOnly(old, new) ==
    \/ Cardinality(DOMAIN old) # Cardinality(DOMAIN new)
    \/ \E k \in DOMAIN new :
          \/ k \notin DOMAIN old
          \/ old[k].URL # new[k].URL
    \/ \E k \in DOMAIN old : k \notin DOMAIN new

\* the change detection of the polling loop
Changed(old, new) ==
    \/ Cardinality(DOMAIN old) # Cardinality(DOMAIN new)
    \/ \E k \in DOMAIN new :
          \/ k \notin DOMAIN old
          \/ old[k].URL # new[k].URL
          \/ old[k].Status # new[k].Status
    \/ \E k \in DOMAIN old : k \notin DOMAIN new

\* a backoff that multiplies without the cap
NextInterval_NoCap(noChanges, interval) ==
    IF noChanges > NoChangeLimit /\ interval < MaxInterval
    THEN (interval * 12) \div 10
    ELSE interval

\* the polls without a change in a row that are followed under Env
NoChangeCap(Env) ==
    IF "maxNoChanges" \in DOMAIN Env THEN Env.maxNoChanges ELSE MaxNoChanges

\* pollInterval after one more poll without a change: the counter has been
\* incremented, and time.Duration(float64(pollInterval) * 1.2) is taken in
\* whole milliseconds
NextInterval(noChanges, interval) ==
    IF noChanges > NoChangeLimit /\ interval < MaxInterval
    THEN IF (interval * 12) \div 10 > MaxInterval
         THEN MaxInterval
         ELSE (interval * 12) \div 10
    ELSE interval

\* the body of the case <-ticker.C of optimizedPollingMultiplePaths
PollBody(Results, Env) ==
    /\ hmState = "ready"
    /\ \E results \in Results :
         \E foundData \in {FoundData(results).urls} :
           IF ~FoundData(results).found
           THEN /\ consecutiveNoChanges < NoChangeCap(Env)
                /\ consecutiveNoChanges' = consecutiveNoChanges + 1
                /\ pollInterval' =
                      NextInterval(consecutiveNoChanges + 1, pollInterval)
                /\ lastOp' = Op("pollNoData", results, TRUE, <<>>, NoEnv)
                /\ UNCHANGED <<hostsFile, blockedDomains, rows, blockedUrls>>
           ELSE IF Changed(blockedUrls, foundData)
           THEN \E table \in {ReplaceFirebaseRows(rows, ActiveUrls(foundData))} :
                  /\ blockedUrls' = foundData
                  /\ pollInterval' = PollInterval
                  /\ consecutiveNoChanges' = 0
                  /\ updateHostsFile(UpdateKeys(ActiveRuleDomains(table)), Env,
                                     "pollChanged", results)
                  /\ rows' = syncToLocalDatabase(table, foundData)
           ELSE /\ consecutiveNoChanges < NoChangeCap(Env)
                /\ consecutiveNoChanges' = consecutiveNoChanges + 1
                /\ pollInterval' =
                      NextInterval(consecutiveNoChanges + 1, pollInterval)
                /\ lastOp' = Op("pollUnchanged", results, TRUE, <<>>, NoEnv)
                /\ UNCHANGED <<hostsFile, blockedDomains, rows, blockedUrls>>
    /\ UNCHANGED <<backupFile, originalHosts, hmState>>
    /\ UNCHANGED <<remote, sseVars, lockVars>>

\* one tick of optimizedPollingMultiplePaths, the loop left aside
Poll(Results, Env) ==
    /\ PollBody(Results, Env)
    /\ UNCHANGED loopVars

\* POST /api/v1/rules
handleAddRule(Domains, Categories, Env) ==
    /\ hmState = "ready"
    /\ \E domain \in Domains, category \in Categories :
         \E nd \in {normalizeDomain(domain)} :
           IF nd = <<>>
           THEN /\ lastOp' = Op("handleAddRule", <<domain, category>>, FALSE,
                                <<>>, NoEnv)
                /\ UNCHANGED <<hostsFile, blockedDomains, rows>>
           ELSE /\ BagCardinality(Select(rows,
                        {r \in BagToSet(rows) : r.category # FirebaseSync}))
                      < Env.maxRows
                /\ rows' = rows (+) SetToBag({Row(nd, category)})
                /\ updateHostsFile(AddKeys(blockedDomains, nd), Env,
                                   "handleAddRule", <<domain, category>>)
    /\ UNCHANGED <<backupFile, originalHosts, hmState>>
    /\ UNCHANGED <<blockedUrls, pollInterval, consecutiveNoChanges>>
    /\ UNCHANGED <<remote, sseVars, lockVars, loopVars>>

\* DELETE /api/v1/rules/{id}, for the id of a row of the table
handleDeleteRule(Env) ==
    /\ hmState = "ready"
    /\ \E row \in BagToSet(rows) :
         /\ rows' = rows (-) SetToBag({row})
         /\ updateHostsFile(
                RemoveKeys(blockedDomains, normalizeDomain(row.domain)), Env,
                "handleDeleteRule", row)
    /\ UNCHANGED <<backupFile, originalHosts, hmState>>
    /\ UNCHANGED <<blockedUrls, pollInterval, consecutiveNoChanges>>
    /\ UNCHANGED <<remote, sseVars, lockVars, loopVars>>

\* the urls ForceSync hands to updateHostsFile: those of the first path whose
\* map has an active record with a usable url; <<>> when it finds none
RECURSIVE ForceSyncUrls(_)
ForceSyncUrls(results) ==
    IF results = <<>> THEN <<>>
    ELSE IF Head(results).kind = "data" /\ ActiveUrls(Head(results).urls) # <<>>
         THEN ActiveUrls(Head(results).urls)
         ELSE ForceSyncUrls(Tail(results))

\* FirebaseService.ForceSync (POST /api/v1/firebase/force-sync)
ForceSync(Results, Env) ==
    /\ hmState = "ready"
    /\ \E results \in Results :
         \E urls \in {ForceSyncUrls(results)} :
           IF urls = <<>>
           THEN /\ lastOp' = Op("ForceSync", results, FALSE, <<>>, NoEnv)
                /\ UNCHANGED <<hostsFile, blockedDomains, rows>>
           ELSE \E table \in {ReplaceFirebaseRows(rows, urls)} :
                  /\ rows' = table
                  /\ updateHostsFile(UpdateKeys(ActiveRuleDomains(table)), Env,
                                     "ForceSync", results)
    /\ UNCHANGED <<backupFile, originalHosts, hmState>>
    /\ UNCHANGED <<blockedUrls, pollInterval, consecutiveNoChanges>>
    /\ UNCHANGED <<remote, sseVars, lockVars, loopVars>>

\* the domains handleManualFirebaseSync takes from fs.GetBlockedUrls()
ManualSyncDomains(data) ==
    LET keys == SeqOf(ActiveKeys(data))
        all == [i \in 1..Len(keys) |-> normalizeDomain(data[keys[i]].URL)]
    IN  SelectSeq(all, LAMBDA d : d # <<>>)

\* POST /api/v1/sync/firebase
handleManualFirebaseSync(Env) ==
    /\ hmState = "ready"
    /\ \E domains \in {ManualSyncDomains(blockedUrls)} :
         IF domains = <<>>
         THEN /\ lastOp' = Op("handleManualFirebaseSync", domains, FALSE, <<>>,
                              NoEnv)
              /\ UNCHANGED <<hostsFile, blockedDomains, rows>>
         ELSE /\ updateHostsFile(UpdateKeys(domains), Env,
                                 "handleManualFirebaseSync", domains)
              /\ rows' = IF lastOp'.ok
                         THEN ReplaceFirebaseRows(rows, domains)
                         ELSE rows
    /\ UNCHANGED <<backupFile, originalHosts, hmState>>
    /\ UNCHANGED <<blockedUrls, pollInterval, consecutiveNoChanges>>
    /\ UNCHANGED <<remote, sseVars, lockVars, loopVars>>

----------------------------------------------------------------------------
(* The HostsManager alone, driven through its public methods: every prior  *)
(* content, argument and map order, the write done at once or refused      *)

HostsEnv ==
    [runs |-> EffectEnv, reads |-> BOOLEAN, orders |-> "all",
     maxLen |-> MaxFileLen, maxRows |-> MaxManualRows]

HostsInit == HmInit(InitialFiles) /\ FsInit

HostsNext ==
    \/ Initialize
    \/ AddBlockedDomain(DomainArgs, HostsEnv)
    \/ RemoveBlockedDomain(DomainArgs, HostsEnv)
    \/ UpdateBlockedDomains(DomainLists, HostsEnv)
    \/ RestoreOriginal(HostsEnv)
    \/ Cleanup(HostsEnv)

HostsSpec == HostsInit /\ [][HostsNext]_vars

----------------------------------------------------------------------------
(* The write chain: every run of the chain, on one argument                 *)

WriterEnv ==
    [runs |-> WriteEnv, reads |-> BOOLEAN, orders |-> "all",
     maxLen |-> MaxFileLen, maxRows |-> MaxManualRows]

WriterInit == HmInit({<<X, EmptyLine>>}) /\ FsInit

WriterNext ==
    \/ Initialize
    \/ UpdateBlockedDomains({<<WwwA>>}, WriterEnv)
    \/ RestoreOriginal(WriterEnv)

WriterSpec == WriterInit /\ [][WriterNext]_vars

----------------------------------------------------------------------------
(* The whole service: the polling loop and the rule handlers on one         *)
(* HostsManager and one block_rules table                                   *)

UrlA == <<"a.com">>
UrlB == <<HTTPS, WWW, "b.com", "/", "p">>
UrlUpper == <<"A.COM">>

Record(url, status) == [URL |-> url, Status |-> status]

SnapA == [k \in {"k1"} |-> Record(UrlA, "active")]
SnapB == [k \in {"k2"} |-> Record(UrlB, "active")]
SnapAB ==
    [k \in {"k1", "k2"} |->
        IF k = "k1" THEN Record(UrlA, "active") ELSE Record(UrlB, "active")]
SnapUpper == [k \in {"k1"} |-> Record(UrlUpper, "active")]
SnapOff == [k \in {"k1"} |-> Record(UrlA, "inactive")]

Snapshots == {SnapA, SnapB, SnapAB, SnapUpper, SnapOff}

\* what the six candidate paths return in one tick: nothing anywhere, or a
\* map at the first path, or a map at the third after an error and an empty
\* answer
PathResults ==
    { [i \in 1..6 |-> PathError],
      [i \in 1..6 |-> IF i % 2 = 1 THEN PathError ELSE PathEmpty] }
    \cup { <<PathData(d), PathEmpty, PathEmpty, PathEmpty, PathEmpty, PathEmpty>> :
              d \in Snapshots \ {SnapA} }
    \cup { <<PathError, PathEmpty, PathData(SnapA), PathData(SnapB), PathEmpty,
             PathError>> }

ManualDomains == {<<"WWW.", "B.COM">>, <<SP>>}

\* the runs of the write chain the service is followed under: written at
\* once, refused untouched, or cut short by the first strategy and refused
\* by the others
SystemRuns ==
    {w \in WriteEnv :
        \/ w.direct = "ok"
        \/ w.temp = "fail" /\ w.ps = "fail" /\ w.roboTemp = "fail"
           /\ w.icacls = "ok" /\ w.cut = 0}

SystemEnv ==
    [runs |-> SystemRuns, reads |-> {FALSE}, orders |-> "one",
     maxLen |-> MaxSystemFileLen, maxRows |-> MaxManualRows]

Init == HmInit({<<X, EmptyLine>>}) /\ FsInit

Next ==
    \/ Initialize
    \/ Poll(PathResults, SystemEnv)
    \/ handleAddRule(ManualDomains, {"manual"}, SystemEnv)
    \/ handleDeleteRule(SystemEnv)

Spec == Init /\ [][Next]_vars

----------------------------------------------------------------------------
(* The ways block_rules and the hosts file are synchronized with the remote *)
(* map: the polling loop, ForceSync, the manual sync and the rule handlers, *)
(* on snapshots with records that share a domain or are all inactive        *)

\* two records whose urls give the same domain
SnapTwin ==
    [k \in {"k1", "k2"} |->
        IF k = "k1" THEN Record(UrlA, "active")
                    ELSE Record(<<HTTPS, "a.com">>, "active")]

SyncResults ==
    { [i \in 1..6 |-> PathError] }
    \cup { <<PathData(d), PathEmpty, PathEmpty, PathEmpty, PathEmpty, PathError>> :
              d \in {SnapTwin, SnapB, SnapOff} }

SyncEnv ==
    [runs |-> EffectEnv, reads |-> {FALSE}, orders |-> "one",
     maxLen |-> MaxSystemFileLen, maxRows |-> MaxSyncRows]

SyncInit == HmInit({<<X, EmptyLine>>}) /\ FsInit

SyncNext ==
    \/ Initialize
    \/ Poll(SyncResults, SyncEnv)
    \/ ForceSync(SyncResults, SyncEnv)
    \/ handleManualFirebaseSync(SyncEnv)
    \/ handleAddRule({<<"b.com">>}, {"manual"}, SyncEnv)

SyncSpec == SyncInit /\ [][SyncNext]_vars

----------------------------------------------------------------------------
(* The reconciler against a remote store that the companion app edits: the  *)
(* polling loop keeps running and every hosts write succeeds at once        *)

\* what the candidate paths return when the family's path holds data: a
\* store without records answers with an empty map
RemoteAnswers(data) ==
    [i \in 1..6 |-> IF i = 1 /\ DOMAIN data # {} THEN PathData(data)
                                                ELSE PathEmpty]

\* the maps the remote store goes through; <<>> is the store without records
RemoteMaps == {<<>>, SnapA, SnapB, SnapAB}

\* the content a tick that sees data would hand to writeHostsFile
TickContent(data) ==
    DesiredContent(hostsFile,
        SeqOf(UpdateKeys(ActiveRuleDomains(
                  ReplaceFirebaseRows(rows, ActiveUrls(data))))))

\* the companion app rewrites the blockedUrls of the family; a change is
\* followed while the hosts file has room for the tick that processes it
RemoteWrite(Maps, Env) ==
    /\ \E data \in Maps \ {remote} :
         /\ WithinBounds(TickContent(data), Env.maxLen)
         /\ remote' = data
         /\ lastOp' = Op("remoteWrite", data, TRUE, <<>>, NoEnv)
    /\ UNCHANGED <<hmVars, fsVars, lockVars, loopVars, sseVars>>

ReconcileEnv ==
    [runs |-> {w \in WriteEnv : w.direct = "ok"}, reads |-> {FALSE},
     orders |-> "one", maxLen |-> MaxSystemFileLen, maxRows |-> MaxManualRows]

ReconcileInit == HmInit({<<X, EmptyLine>>}) /\ FsInit

\* one tick of the polling loop against the remote store
RemotePoll == Poll({RemoteAnswers(remote)}, ReconcileEnv)

ReconcileNext ==
    \/ Initialize
    \/ RemoteWrite(RemoteMaps, ReconcileEnv)
    \/ RemotePoll

\* RemotePoll is enabled: the HostsManager is ready, and the tick is one the
\* model follows (a change that fits the file, or one more poll without one)
CanPoll ==
    /\ hmState = "ready"
    /\ IF DOMAIN remote # {} /\ Changed(blockedUrls, remote)
       THEN WithinBounds(TickContent(remote), ReconcileEnv.maxLen)
       ELSE consecutiveNoChanges < MaxNoChanges

\* main initializes the HostsManager when the service starts: weak fairness
\* of Initialize. The ticker fires whatever the remote store does, so a tick
\* that can run again and again does run: strong fairness of RemotePoll,
\* with its enabling condition CanPoll written out.
ReconcileSpec ==
    /\ ReconcileInit /\ [][ReconcileNext]_vars
    /\ WF_vars(Initialize)
    /\ []<>CanPoll => []<><<RemotePoll>>_vars

----------------------------------------------------------------------------
(* The HostsManager called from two goroutines at once: each call is        *)
(* followed through hm.mutex.Lock(), the reading of the hosts file and the  *)
(* write that ends it (the deferred Unlock runs as the call returns)        *)

\* sync.RWMutex.Lock returns only when nobody holds the mutex
CanLock(holder) == holder = NoHolder

\* the calls a goroutine makes: the polling loop replaces the whole set, a
\* request handler adds or removes a domain, cleans up or restores
CallOps(g) ==
    IF g = "poller"
    THEN {[op |-> "UpdateBlockedDomains", arg |-> <<WwwA>>],
          [op |-> "UpdateBlockedDomains", arg |-> <<>>]}
    ELSE {[op |-> "AddBlockedDomain", arg |-> A],
          [op |-> "RemoveBlockedDomain", arg |-> A],
          [op |-> "Cleanup", arg |-> <<>>],
          [op |-> "RestoreOriginal", arg |-> <<>>]}

\* hm.mutex.Lock() at the head of a method
LockCall(g) ==
    /\ hmState = "ready"
    /\ calls[g].pc = "idle"
    /\ CanLock(mutex)
    /\ mutex' = g
    /\ \E c \in CallOps(g) :
         calls' = [calls EXCEPT ![g] = [pc |-> "locked", op |-> c.op,
                                        arg |-> c.arg, read |-> <<>>,
                                        content |-> <<>>]]
    /\ UNCHANGED <<hmVars, fsVars, lastOp, remote, sseVars, loopVars>>

\* hm.blockedDomains as the call c leaves it
CallKeys(c) ==
    CASE c.op = "AddBlockedDomain" -> AddKeys(blockedDomains, c.arg)
      [] c.op = "RemoveBlockedDomain" -> RemoveKeys(blockedDomains, c.arg)
      [] c.op = "UpdateBlockedDomains" -> UpdateKeys(c.arg)
      [] OTHER -> blockedDomains

\* the content the call c is going to write, from the files as they are
CallContent(c, order) ==
    CASE c.op = "Cleanup" -> cleanKidSafeSection(hostsFile)
      [] c.op = "RestoreOriginal" ->
            IF backupFile # NoFile THEN copyFile(backupFile) ELSE originalHosts
      [] OTHER -> DesiredContent(hostsFile, order)

\* the call changes the map, reads the hosts file and builds the new content
ReadCall(g, Env) ==
    /\ calls[g].pc = "locked"
    /\ \E keys \in {CallKeys(calls[g])} :
         \E order \in RangeOrders(keys, Env.orders) :
           \E content \in {CallContent(calls[g], order)} :
              /\ WithinBounds(content, Env.maxLen)
              /\ blockedDomains' = keys
              /\ calls' = [calls EXCEPT ![g].pc = "computed",
                                        ![g].read = hostsFile,
                                        ![g].content = content]
    /\ UNCHANGED <<hostsFile, backupFile, originalHosts, hmState>>
    /\ UNCHANGED <<fsVars, lastOp, remote, sseVars, mutex, loopVars>>

\* the domains the call c was given, as a list
CallDomains(c) ==
    IF c.op \in {"AddBlockedDomain", "RemoveBlockedDomain"}
    THEN <<c.arg>> ELSE c.arg

\* the write of the call in progress and its return, which unlocks the mutex
FinishCall(g, Env) ==
    /\ mutex' = NoHolder
    /\ calls' = [calls EXCEPT ![g] = NoCall]
    /\ \E c \in {calls[g]} :
         IF c.op = "RestoreOriginal" /\ backupFile # NoFile
         THEN \E copyOk \in BOOLEAN :
                /\ hostsFile' = IF copyOk THEN c.content ELSE hostsFile
                /\ backupFile' = IF copyOk THEN NoFile ELSE backupFile
                /\ blockedDomains' = IF copyOk THEN {} ELSE blockedDomains
                /\ lastOp' = Op(c.op, CallDomains(c), copyOk, <<>>, NoEnv)
         ELSE \E w \in Env.runs :
                \E r \in {writeHostsFile(c.content, hostsFile, w)} :
                   /\ WithinBounds(r.file, Env.maxLen)
                   /\ hostsFile' = r.file
                   /\ backupFile' = IF c.op = "Cleanup" /\ r.ok
                                    THEN NoFile ELSE backupFile
                   /\ blockedDomains' = IF c.op = "RestoreOriginal" /\ r.ok
                                        THEN {} ELSE blockedDomains
                   /\ lastOp' = Op(c.op, CallDomains(c), r.ok, r.tried, w)
    /\ UNCHANGED <<originalHosts, hmState, fsVars, remote, sseVars, loopVars>>

\* the call writes the hosts file and returns
WriteCall(g, Env) ==
    /\ calls[g].pc = "computed"
    /\ FinishCall(g, Env)

LockEnv ==
    [runs |-> SystemRuns, reads |-> {FALSE}, orders |-> "one",
     maxLen |-> MaxSystemFileLen, maxRows |-> MaxManualRows]

LockInit == HmInit({<<X, EmptyLine>>}) /\ FsInit

LockNext ==
    \/ Initialize
    \/ \E g \in Goroutines : LockCall(g)
    \/ \E g \in Goroutines : ReadCall(g, LockEnv)
    \/ \E g \in Goroutines : WriteCall(g, LockEnv)

LockSpec == LockInit /\ [][LockNext]_vars

----------------------------------------------------------------------------
(* normalizeDomain applied to raw strings (NormalizeSpec)                   *)

\* the pieces raw strings are made of: a scheme, the www. prefix, names in
\* lower and upper case, a space, a port with its colon, and the separators
\* of path, query and fragment
InputTokens == {HTTP, WWW, "a.com", "A.COM", SP, ":", "8080", "/", "?"}

\* the raw strings: a scheme stands at the front only and there is at most
\* one colon besides the one of the scheme
RawInputs ==
    {s \in UNION {[1..n -> InputTokens] : n \in 0..MaxInputLen} :
        /\ \A i \in 2..Len(s) : s[i] # HTTP
        /\ Cardinality({i \in 1..Len(s) : s[i] = ":"}) <= 1}

NormalizeInit ==
    /\ mutex = NoHolder
    /\ calls = [g \in Goroutines |-> NoCall]
    /\ hostsFile = <<X, EmptyLine>>
    /\ backupFile = NoFile
    /\ originalHosts = <<EmptyLine>>
    /\ blockedDomains = {}
    /\ hmState = "new"
    /\ \E raw \in RawInputs : lastOp = Op("raw", raw, TRUE, <<>>, NoEnv)
    /\ FsInit

\* normalizeDomain is applied to the string at hand, raw or normalized
Normalize ==
    /\ \E r \in {normalizeDomain(lastOp.arg)} :
         lastOp' = Op("normalizeDomain", r, r # <<>>, <<>>, NoEnv)
    /\ UNCHANGED <<hmVars, fsVars, remote, sseVars, lockVars, loopVars>>

NormalizeNext == Normalize

NormalizeSpec == NormalizeInit /\ [][NormalizeNext]_vars

----------------------------------------------------------------------------
(* CoreService: the rule handlers on raw domains (RuleSpec)                 *)

\* the Domain fields of the requests: a phrase, a name with capitals and
\* www., a name followed by a space, a name with a space inside, spaces only
RuleDomains ==
    { <<"not", SP, "a", SP, "domain">>, <<"WWW.", "B.COM">>, <<"a.com", SP>>,
      <<"a.com", SP, "b.com">>, <<SP>> }

RuleInit == HmInit({<<X, EmptyLine>>}) /\ FsInit

RuleNext ==
    \/ Initialize
    \/ handleAddRule(RuleDomains, {"manual"}, SyncEnv)
    \/ handleDeleteRule(SyncEnv)

RuleSpec == RuleInit /\ [][RuleNext]_vars

----------------------------------------------------------------------------
(* FirebaseService: the adaptive interval of the polling loop (BackoffSpec) *)

\* what the candidate paths return: nothing, or one of two maps
BackoffResults ==
    { [i \in 1..6 |-> PathError],
      [i \in 1..6 |-> PathEmpty],
      <<PathData(SnapA), PathEmpty, PathEmpty, PathEmpty, PathEmpty, PathEmpty>>,
      <<PathError, PathData(SnapB), PathEmpty, PathEmpty, PathEmpty, PathEmpty>> }

\* every hosts write succeeds at once, and the polls without a change are
\* followed until the interval has reached maxInterval
BackoffEnv ==
    [runs |-> {w \in WriteEnv : w.direct = "ok"}, reads |-> {FALSE},
     orders |-> "one", maxLen |-> MaxSystemFileLen, maxRows |-> MaxManualRows,
     maxNoChanges |-> MaxBackoffPolls]

BackoffInit == HmInit({<<X, EmptyLine>>}) /\ FsInit

BackoffNext ==
    \/ Initialize
    \/ Poll(BackoffResults, BackoffEnv)

BackoffSpec == BackoffInit /\ [][BackoffNext]_vars

----------------------------------------------------------------------------
(* FirebaseService: the candidate paths of a polling cycle (PathSpec)       *)

\* what the six candidate paths return in one tick: errors everywhere, a map
\* at the third path after an error and an empty answer, the same with
\* another map at the first path, a map at the last path only, or nothing
\* but errors and empty answers
CandidateResults ==
    { [i \in 1..6 |-> PathError],
      <<PathError, PathEmpty, PathData(SnapA), PathEmpty, PathEmpty, PathError>>,
      <<PathData(SnapB), PathError, PathData(SnapA), PathEmpty, PathEmpty,
        PathError>>,
      <<PathError, PathError, PathEmpty, PathError, PathError,
        PathData(SnapAB)>>,
      [i \in 1..6 |-> IF i % 2 = 1 THEN PathEmpty ELSE PathError] }

PathInit == HmInit({<<X, EmptyLine>>}) /\ FsInit

PathNext ==
    \/ Initialize
    \/ Poll(CandidateResults, ReconcileEnv)

PathSpec == PathInit /\ [][PathNext]_vars

----------------------------------------------------------------------------
(* HostsManager: a call that waits for an external command (CommandSpec)    *)

\* the runs in which no external command is started, and those in which the
\* direct write and the temp file have failed and PowerShell is started
DirectEnv ==
    [LockEnv EXCEPT !.runs = {w \in SystemRuns : ~Reached3(w)}]

CommandEnv ==
    [LockEnv EXCEPT !.runs = {w \in SystemRuns : Reached3(w)}]

\* writeHostsFile gets to hm.runCommand: cmd.Output() starts the process and
\* waits for it to exit. RestoreOriginal with a backup file copies the backup
\* and runs no command.
StartCommand(g) ==
    /\ calls[g].pc = "computed"
    /\ ~(calls[g].op = "RestoreOriginal" /\ backupFile # NoFile)
    /\ calls' = [calls EXCEPT ![g].pc = "command"]
    /\ UNCHANGED <<hmVars, fsVars, lastOp, remote, sseVars, mutex, loopVars>>

\* the process exits: cmd.Output() returns, the rest of the chain runs and
\* the call returns
CommandReturns(g, Env) ==
    /\ calls[g].pc = "command"
    /\ FinishCall(g, Env)

CommandInit == HmInit({<<X, EmptyLine>>}) /\ FsInit

CommandNext ==
    \/ Initialize
    \/ \E g \in Goroutines : LockCall(g)
    \/ \E g \in Goroutines : ReadCall(g, LockEnv)
    \/ \E g \in Goroutines : StartCommand(g)
    \/ \E g \in Goroutines : WriteCall(g, DirectEnv)
    \/ \E g \in Goroutines : CommandReturns(g, CommandEnv)

\* a goroutine that has built its content goes on to write it; nothing makes
\* the process that cmd.Output() waits for exit
CommandFairness ==
    \A g \in Goroutines :
        WF_lockVars(StartCommand(g) \/ WriteCall(g, DirectEnv))

CommandSpec == CommandInit /\ [][CommandNext]_vars /\ CommandFairness

----------------------------------------------------------------------------
(* FirebaseService: Start, Stop and the three ticker loops (StopSpec)       *)

\* what happens outside the loops stays as it is
loopFrame == <<hmVars, fsVars, lastOp, remote, sseVars, lockVars>>

\* Start: refused while the service is listening; otherwise the three
\* goroutines are launched and isListening is set. The program calls it once
\* on a service it has just made, so no loop has been launched before.
Start ==
    /\ ~isListening
    /\ \A l \in Loops : loops[l].pc = "notStarted"
    /\ loops' = [l \in Loops |-> [loops[l] EXCEPT !.pc = "select"]]
    /\ isListening' = TRUE
    /\ UNCHANGED <<ctxDone, loopFrame>>

\* Stop: nothing when the service is not listening; otherwise the context is
\* cancelled and isListening is cleared
Stop ==
    /\ IF ~isListening
          THEN UNCHANGED <<ctxDone, isListening>>
          ELSE ctxDone' = TRUE /\ isListening' = FALSE
    /\ UNCHANGED <<loops, loopFrame>>

\* the ticker of a running loop sends a tick: its channel holds one tick
\* and a tick that finds it full is dropped
Tick(l) ==
    /\ loops[l].pc \in {"select", "cycle"}
    /\ ~loops[l].tick
    /\ loops' = [loops EXCEPT ![l].tick = TRUE]
    /\ UNCHANGED <<ctxDone, isListening, loopFrame>>

\* select takes the case <-ticker.C: a poll cycle starts. select chooses
\* among the ready cases, so it may take this one after the cancellation.
SelectTick(l) ==
    /\ loops[l].pc = "select"
    /\ loops[l].tick
    /\ ctxDone => loops[l].further < MaxFurtherCycles
    /\ loops' = [loops EXCEPT ![l] =
                    [pc |-> "cycle", tick |-> FALSE,
                     further |-> IF ctxDone THEN @.further + 1 ELSE @.further]]
    /\ UNCHANGED <<ctxDone, isListening, loopFrame>>

\* select takes the case <-fs.ctx.Done(): the loop returns and its deferred
\* ticker.Stop() runs
SelectDone(l) ==
    /\ loops[l].pc = "select"
    /\ ctxDone
    /\ loops' = [loops EXCEPT ![l].pc = "returned", ![l].tick = FALSE]
    /\ UNCHANGED <<ctxDone, isListening, loopFrame>>

\* the body of the case <-ticker.C ends and the loop is back at its select
EndCycle(l) ==
    /\ loops[l].pc = "cycle"
    /\ loops' = [loops EXCEPT ![l].pc = "select"]
    /\ UNCHANGED <<ctxDone, isListening, loopFrame>>

StopInit == HmInit({<<X, EmptyLine>>}) /\ FsInit

StopNext ==
    \/ Start
    \/ Stop
    \/ \E l \in Loops : Tick(l)
    \/ \E l \in Loops : SelectTick(l)
    \/ \E l \in Loops : SelectDone(l)
    \/ \E l \in Loops : EndCycle(l)

\* every cycle ends, and a select that keeps finding ctx.Done() ready takes
\* it in the end: it chooses among the ready cases at random
StopFairness ==
    \A l \in Loops : WF_vars(EndCycle(l)) /\ SF_vars(SelectDone(l))

StopSpec == StopInit /\ [][StopNext]_vars /\ StopFairness

----------------------------------------------------------------------------
(* main: NewCoreService, the API server and the polling loops (StartupSpec) *)

\* runConsole and Execute call firebaseService.Start only after
\* NewCoreService has returned without an error
StartService ==
    /\ hmState = "ready"
    /\ Start

\* the body of a cycle of the blocked-URL loop
CyclePoll(Results, Env) ==
    /\ loops["blockedUrls"].pc = "cycle"
    /\ Poll(Results, Env)

StartupResults ==
    { [i \in 1..6 |-> PathError],
      <<PathData(SnapA), PathEmpty, PathEmpty, PathEmpty, PathEmpty, PathEmpty>> }

StartupInit == HmInit({<<X, EmptyLine>>}) /\ FsInit

StartupNext ==
    \/ Initialize
    \/ StartService
    \/ \E l \in Loops : Tick(l)
    \/ \E l \in Loops : SelectTick(l)
    \/ \E l \in Loops : EndCycle(l)
    \/ CyclePoll(StartupResults, SyncEnv)
    \/ handleAddRule({<<"b.com">>}, {"manual"}, SyncEnv)

StartupSpec == StartupInit /\ [][StartupNext]_vars

----------------------------------------------------------------------------
(* FirebaseService: the cycles of the blocked-URL loop (CycleSpec)          *)

BlockedUrlsLoop == "blockedUrls"

\* a cycle of the blocked-URL loop: the body of the case <-ticker.C runs to
\* its end and the for loop is back at its select
PollCycle(Results, Env) ==
    /\ loops[BlockedUrlsLoop].pc = "cycle"
    /\ PollBody(Results, Env)
    /\ loops' = [loops EXCEPT ![BlockedUrlsLoop].pc = "select"]
    /\ UNCHANGED <<ctxDone, isListening>>

\* what the candidate paths return: nothing, or one of the five maps at the
\* first path
CycleResults ==
    { [i \in 1..6 |-> PathError] }
    \cup { <<PathData(d), PathEmpty, PathEmpty, PathEmpty, PathEmpty, PathError>> :
              d \in Snapshots }

CycleInit == HmInit({<<X, EmptyLine>>}) /\ FsInit

CycleNext ==
    \/ Initialize
    \/ StartService
    \/ Tick(BlockedUrlsLoop)
    \/ SelectTick(BlockedUrlsLoop)
    \/ PollCycle(CycleResults, ReconcileEnv)

CycleSpec == CycleInit /\ [][CycleNext]_vars

----------------------------------------------------------------------------
(* FirebaseService: cycles on maps with null records (CrashSpec)            *)

\* a key whose value is null in the fetched JSON: a nil *BlockedUrl
NullRecord == Record(<<>>, "null")

SnapNull == [k \in {"k1"} |-> NullRecord]
SnapHalfNull ==
    [k \in {"k1", "k2"} |->
        IF k = "k1" THEN Record(UrlA, "active") ELSE NullRecord]

\* the keys at which the comparison existing.URL != v.URL dereferences a nil
\* pointer
NilKeys(old, new) ==
    {k \in DOMAIN old \cap DOMAIN new :
        old[k] = NullRecord \/ new[k] = NullRecord}

\* the change detection can reach a nil pointer: the maps have the same
\* length and the range over foundData can come to such a key first
DiffPanics(old, new) ==
    /\ Cardinality(DOMAIN old) = Cardinality(DOMAIN new)
    /\ NilKeys(old, new) # {}

\* the change detection can return: the lengths differ, or no key has a nil
\* pointer, or the range can come first to a key that ends it
DiffReturns(old, new) ==
    \/ Cardinality(DOMAIN old) # Cardinality(DOMAIN new)
    \/ NilKeys(old, new) = {}
    \/ \E k \in DOMAIN new \ NilKeys(old, new) :
          IF k \in DOMAIN old
          THEN old[k].URL # new[k].URL \/ old[k].Status # new[k].Status
          ELSE TRUE

\* a cycle whose change detection returns
SafeCycle(Results, Env) ==
    \E r \in Results :
        /\ IF FoundData(r).found
           THEN DiffReturns(blockedUrls, FoundData(r).urls) ELSE TRUE
        /\ PollCycle({r}, Env)

\* a cycle whose change detection panics: no goroutine but main recovers, so
\* the process ends and every loop with it
CrashCycle(Results) ==
    /\ hmState = "ready"
    /\ loops[BlockedUrlsLoop].pc = "cycle"
    /\ \E r \in Results :
         /\ FoundData(r).found
         /\ DiffPanics(blockedUrls, FoundData(r).urls)
         /\ lastOp' = Op("pollPanic", r, FALSE, <<>>, NoEnv)
    /\ loops' = [l \in Loops |-> [loops[l] EXCEPT !.pc = "crashed"]]
    /\ UNCHANGED <<hmVars, fsVars, remote, sseVars, lockVars, ctxDone, isListening>>

\* what the candidate paths return: errors, or a map at the second path
\* after an error
CrashResults ==
    { [i \in 1..6 |-> PathError] }
    \cup { <<PathError, PathData(d), PathEmpty, PathEmpty, PathEmpty, PathError>> :
              d \in {SnapA, SnapNull, SnapHalfNull} }

CrashInit == HmInit({<<X, EmptyLine>>}) /\ FsInit

CrashNext ==
    \/ Initialize
    \/ StartService
    \/ Tick(BlockedUrlsLoop)
    \/ SelectTick(BlockedUrlsLoop)
    \/ SafeCycle(CrashResults, SystemEnv)
    \/ CrashCycle(CrashResults)

CrashSpec == CrashInit /\ [][CrashNext]_vars

----------------------------------------------------------------------------
(* The statements of a Changed cycle and of the request handlers, one by    *)
(* one: every db.Exec and db.Query is a step of its own (no transaction     *)
(* spans two of them) and every call of the HostsManager is one step (it    *)
(* holds hm.mutex from its first line to its return). calls[g] holds the    *)
(* position of goroutine g: arg is the list it works on, read the domains   *)
(* that were active in the last-seen map when its cycle began. (StepSpec)   *)

\* the goroutine g is at position pc of the handler op
At(g, op, pc) == calls[g].op = op /\ calls[g].pc = pc

\* the position of goroutine g becomes pc, its list arg
Goto(g, pc, arg) ==
    calls' = [calls EXCEPT ![g].pc = pc, ![g].arg = arg]

stepFrame == <<backupFile, originalHosts, hmState, remote, sseVars, mutex, loopVars>>

\* case <-ticker.C of a running loop: the paths are fetched, the map has
\* changed, and it becomes the last-seen map
CycleFetch(Results) ==
    /\ hmState = "ready"
    /\ loops[BlockedUrlsLoop].pc = "select" /\ ~ctxDone
    /\ calls["poller"].pc = "idle"
    /\ \E results \in Results :
         \E foundData \in {FoundData(results).urls} :
            /\ FoundData(results).found
            /\ Changed(blockedUrls, foundData) = TRUE
            /\ blockedUrls' = foundData
            /\ calls' = [calls EXCEPT !["poller"] =
                            [pc |-> "changed", op |-> "cycle",
                             arg |-> ActiveUrls(foundData),
                             read |-> ActiveUrls(blockedUrls),
                             content |-> <<>>]]
            /\ lastOp' = Op("cycleFetch", results, TRUE, <<>>, NoEnv)
    /\ pollInterval' = PollInterval
    /\ consecutiveNoChanges' = 0
    /\ UNCHANGED <<hostsFile, blockedDomains, rows, stepFrame>>

\* updateHostsFile: DELETE FROM block_rules WHERE category = 'firebase-sync'
CycleDelete ==
    /\ At("poller", "cycle", "changed")
    /\ rows' = Select(rows, {r \in BagToSet(rows) : r.category # FirebaseSync})
    /\ Goto("poller", "deleted", calls["poller"].arg)
    /\ UNCHANGED <<hostsFile, blockedDomains, blockedUrls, pollInterval,
                   consecutiveNoChanges, lastOp, stepFrame>>

\* updateHostsFile: the INSERT of the next url
CycleInsert ==
    /\ At("poller", "cycle", "deleted")
    /\ calls["poller"].arg # <<>>
    /\ rows' = rows (+) SetToBag({Row(Head(calls["poller"].arg), FirebaseSync)})
    /\ Goto("poller", "deleted", Tail(calls["poller"].arg))
    /\ UNCHANGED <<hostsFile, blockedDomains, blockedUrls, pollInterval,
                   consecutiveNoChanges, lastOp, stepFrame>>

\* syncRulesToHosts: the SELECT of the active rows, normalized
CycleRead ==
    /\ At("poller", "cycle", "deleted")
    /\ calls["poller"].arg = <<>>
    /\ Goto("poller", "read", ActiveRuleDomains(rows))
    /\ UNCHANGED <<hostsFile, blockedDomains, rows, blockedUrls, pollInterval,
                   consecutiveNoChanges, lastOp, stepFrame>>

\* syncRulesToHosts: UpdateBlockedDomains with the list that was read
CycleWrite(Env) ==
    /\ At("poller", "cycle", "read")
    /\ updateHostsFile(UpdateKeys(calls["poller"].arg), Env, "cycleWrite",
                       calls["poller"].arg)
    /\ Goto("poller", "written", <<>>)
    /\ UNCHANGED <<rows, blockedUrls, pollInterval, consecutiveNoChanges,
                   stepFrame>>

\* syncToLocalDatabase with the fetched map, and the end of the cycle
CycleSync ==
    /\ At("poller", "cycle", "written")
    /\ rows' = syncToLocalDatabase(rows, blockedUrls)
    /\ calls' = [calls EXCEPT !["poller"] = NoCall]
    /\ UNCHANGED <<hostsFile, blockedDomains, blockedUrls, pollInterval,
                   consecutiveNoChanges, lastOp, stepFrame>>

\* handleSystemConfigure: the SELECT of syncRulesToHosts
ConfigureRead ==
    /\ hmState = "ready" /\ ~ctxDone
    /\ calls["api"].pc = "idle"
    /\ calls' = [calls EXCEPT !["api"] =
                    [pc |-> "read", op |-> "configure",
                     arg |-> ActiveRuleDomains(rows),
                     read |-> <<>>, content |-> <<>>]]
    /\ UNCHANGED <<hostsFile, blockedDomains, rows, blockedUrls, pollInterval,
                   consecutiveNoChanges, lastOp, stepFrame>>

\* handleSystemConfigure: UpdateBlockedDomains with the list that was read
ConfigureWrite(Env) ==
    /\ At("api", "configure", "read")
    /\ updateHostsFile(UpdateKeys(calls["api"].arg), Env,
                       "handleSystemConfigure", calls["api"].arg)
    /\ calls' = [calls EXCEPT !["api"] = NoCall]
    /\ UNCHANGED <<rows, blockedUrls, pollInterval, consecutiveNoChanges,
                   stepFrame>>

\* handleAddRule: the INSERT of the normalized domain
AddInsert(Domains, Categories, Env) ==
    /\ hmState = "ready" /\ ~ctxDone
    /\ calls["api"].pc = "idle"
    /\ \E domain \in Domains, category \in Categories :
         \E nd \in {normalizeDomain(domain)} :
            /\ nd # <<>>
            /\ BagCardinality(Select(rows,
                     {r \in BagToSet(rows) : r.category # FirebaseSync}))
                   < Env.maxRows
            /\ rows' = rows (+) SetToBag({Row(nd, category)})
            /\ calls' = [calls EXCEPT !["api"] =
                            [pc |-> "inserted", op |-> "add", arg |-> <<nd>>,
                             read |-> <<>>, content |-> <<>>]]
    /\ UNCHANGED <<hostsFile, blockedDomains, blockedUrls, pollInterval,
                   consecutiveNoChanges, lastOp, stepFrame>>

\* handleAddRule: AddBlockedDomain(nd) and the answer
AddBlock(Env) ==
    /\ At("api", "add", "inserted")
    /\ updateHostsFile(AddKeys(blockedDomains, calls["api"].arg[1]), Env,
                       "handleAddRule", calls["api"].arg)
    /\ calls' = [calls EXCEPT !["api"] = NoCall]
    /\ UNCHANGED <<rows, blockedUrls, pollInterval, consecutiveNoChanges,
                   stepFrame>>

\* CoreService.Shutdown of a service that is listening: firebaseService.Stop
\* cancels the context, then hostsManager.Cleanup
Shutdown(Env) ==
    /\ isListening
    /\ ctxDone' = TRUE
    /\ isListening' = FALSE
    /\ CleanupCall(Env)
    /\ UNCHANGED <<fsVars, remote, sseVars, lockVars, loops>>

StepResults ==
    { <<PathData(d), PathEmpty, PathEmpty, PathEmpty, PathEmpty, PathError>> :
         d \in {SnapA, SnapAB} }

StepEnv ==
    [runs |-> {w \in WriteEnv : w.direct = "ok"}, reads |-> {FALSE},
     orders |-> "one", maxLen |-> MaxStepFileLen, maxRows |-> MaxManualRows]

StepInit == HmInit({<<X, EmptyLine>>}) /\ FsInit

StepNext ==
    \/ Initialize
    \/ StartService
    \/ CycleFetch(StepResults)
    \/ CycleDelete
    \/ CycleInsert
    \/ CycleRead
    \/ CycleWrite(StepEnv)
    \/ CycleSync
    \/ ConfigureRead
    \/ ConfigureWrite(StepEnv)
    \/ AddInsert({<<"c.com">>}, {"manual"}, StepEnv)
    \/ AddBlock(StepEnv)
    \/ Shutdown(StepEnv)

StepSpec == StepInit /\ [][StepNext]_vars

----------------------------------------------------------------------------
(* FirebaseService: Start and Stop called again and again (LifecycleSpec)   *)

\* Start on a service that is listening: the error is returned and nothing
\* is launched
StartRefused ==
    /\ isListening
    /\ lastOp' = Op("Start", <<>>, FALSE, <<>>, NoEnv)
    /\ UNCHANGED <<hmVars, fsVars, remote, sseVars, lockVars, loopVars>>

\* Start on a service that was stopped, once the goroutines of the earlier
\* Start have returned: three new goroutines are launched with new tickers,
\* on the context NewFirebaseService made, which Stop has cancelled
Restart ==
    /\ ~isListening
    /\ \A l \in Loops : loops[l].pc = "returned"
    /\ loops' = [l \in Loops |-> [pc |-> "select", tick |-> FALSE, further |-> 0]]
    /\ isListening' = TRUE
    /\ lastOp' = Op("Start", <<>>, TRUE, <<>>, NoEnv)
    /\ UNCHANGED <<ctxDone, hmVars, fsVars, remote, sseVars, lockVars>>

LifecycleInit == HmInit({<<X, EmptyLine>>}) /\ FsInit

LifecycleNext ==
    \/ Start
    \/ StartRefused
    \/ Restart
    \/ Stop
    \/ \E l \in Loops : Tick(l)
    \/ \E l \in Loops : SelectTick(l)
    \/ \E l \in Loops : SelectDone(l)
    \/ \E l \in Loops : EndCycle(l)

LifecycleSpec == LifecycleInit /\ [][LifecycleNext]_vars

----------------------------------------------------------------------------
(* CoreService: the SSE clients and the broadcasts (SseSpec)                *)

sseFrame == <<hmVars, fsVars, lastOp, remote, lockVars, loopVars>>

\* a panic in a goroutine launched with go ends the process; the panic of a
\* handler is recovered by the HTTP server, which ends that request only
Crashed == \E b \in Broadcasters : sse[b].pc \in {"panicClose", "panicSend"}

\* sseMutex.Lock() returns: no writer and no reader is inside
CanLockSse == sseMutex.writer = NoHolder /\ sseMutex.readers = {}

\* handleRulesSSE up to its loop: the channel is made and the client is put
\* into the map between Lock and Unlock
SseRegister(c) ==
    /\ ~Crashed /\ sse[c].pc = "new" /\ CanLockSse
    /\ channels' = [channels EXCEPT ![c] = [made |-> TRUE, buf |-> 0, closed |-> FALSE]]
    /\ sseClients' = sseClients \cup {c}
    /\ sse' = [sse EXCEPT ![c].pc = "select"]
    /\ UNCHANGED <<sseMutex, sseFrame>>

\* case message := <-clientChan: a buffered message is taken; from a closed
\* and empty channel the receive returns the zero value at once, and the
\* handler writes an event with no data and comes back to the select
SseReceive(c) ==
    /\ ~Crashed /\ sse[c].pc = "select"
    /\ IF channels[c].buf > 0
       THEN /\ channels' = [channels EXCEPT ![c].buf = @ - 1]
            /\ sse' = [sse EXCEPT ![c].cur = "rules"]
       ELSE /\ channels[c].closed
            /\ sse' = [sse EXCEPT ![c].cur = ""]
            /\ UNCHANGED channels
    /\ UNCHANGED <<sseClients, sseMutex, sseFrame>>

\* case <-r.Context().Done(): the handler returns and its deferred function
\* starts
SseDisconnect(c) ==
    /\ ~Crashed /\ sse[c].pc = "select"
    /\ sse' = [sse EXCEPT ![c].pc = "deferred"]
    /\ UNCHANGED <<sseClients, sseMutex, channels, sseFrame>>

\* the deferred function: the client is deleted between Lock and Unlock
SseUnregister(c) ==
    /\ ~Crashed /\ sse[c].pc = "deferred" /\ CanLockSse
    /\ sseClients' = sseClients \ {c}
    /\ sse' = [sse EXCEPT ![c].pc = "close"]
    /\ UNCHANGED <<sseMutex, channels, sseFrame>>

\* the deferred function: close(clientChan), which panics on a closed
\* channel
SseClose(c) ==
    /\ ~Crashed /\ sse[c].pc = "close"
    /\ IF channels[c].closed
       THEN /\ sse' = [sse EXCEPT ![c].pc = "panicClose"]
            /\ UNCHANGED channels
       ELSE /\ channels' = [channels EXCEPT ![c].closed = TRUE]
            /\ sse' = [sse EXCEPT ![c].pc = "done"]
    /\ UNCHANGED <<sseClients, sseMutex, sseFrame>>

\* broadcastRulesUpdate up to its range loop: RLock, and with a client in
\* the map the message is built (with no client it returns, and nothing has
\* changed)
BroadcastBegin(b) ==
    /\ ~Crashed /\ sse[b].pc = "idle"
    /\ sseMutex.writer = NoHolder
    /\ sseClients # {}
    /\ sseMutex' = [sseMutex EXCEPT !.readers = @ \cup {b}]
    /\ sse' = [sse EXCEPT ![b] = [pc |-> "range", cur |-> "-", todo |-> sseClients]]
    /\ UNCHANGED <<sseClients, channels, sseFrame>>

\* the range loop gives the next client that is still in the map, or ends,
\* and the deferred RUnlock runs
BroadcastNext(b) ==
    /\ ~Crashed /\ sse[b].pc = "range"
    /\ IF sse[b].todo \cap sseClients = {}
       THEN /\ sse' = [sse EXCEPT ![b] = NoBroadcast]
            /\ sseMutex' = [sseMutex EXCEPT !.readers = @ \ {b}]
       ELSE /\ \E c \in sse[b].todo \cap sseClients :
                 sse' = [sse EXCEPT ![b] = [pc |-> "select", cur |-> c,
                                             todo |-> sse[b].todo \ {c}]]
            /\ UNCHANGED sseMutex
    /\ UNCHANGED <<sseClients, channels, sseFrame>>

\* select { case client.channel <- message: ... default: ... }: a send on a
\* closed channel panics, a channel with room takes the message, a full one
\* leads to the default case
BroadcastSend(b) ==
    /\ ~Crashed /\ sse[b].pc = "select"
    /\ LET c == sse[b].cur
       IN  IF channels[c].closed
           THEN /\ sse' = [sse EXCEPT ![b].pc = "panicSend"]
                /\ sseMutex' = [sseMutex EXCEPT !.readers = @ \ {b}]
                /\ UNCHANGED channels
           ELSE IF channels[c].buf < MaxChannelBuffer
           THEN /\ channels' = [channels EXCEPT ![c].buf = @ + 1]
                /\ sse' = [sse EXCEPT ![b].pc = "range"]
                /\ UNCHANGED sseMutex
           ELSE /\ sse' = [sse EXCEPT ![b].pc = "delete"]
                /\ UNCHANGED <<channels, sseMutex>>
    /\ UNCHANGED <<sseClients, sseFrame>>

\* the default case: delete(s.sseClients, clientID), inside RLock
BroadcastDelete(b) ==
    /\ ~Crashed /\ sse[b].pc = "delete"
    /\ sseClients' = sseClients \ {sse[b].cur}
    /\ sse' = [sse EXCEPT ![b].pc = "close"]
    /\ UNCHANGED <<sseMutex, channels, sseFrame>>

\* the default case: close(client.channel), which panics on a closed channel
BroadcastClose(b) ==
    /\ ~Crashed /\ sse[b].pc = "close"
    /\ LET c == sse[b].cur
       IN  IF channels[c].closed
           THEN /\ sse' = [sse EXCEPT ![b].pc = "panicClose"]
                /\ sseMutex' = [sseMutex EXCEPT !.readers = @ \ {b}]
                /\ UNCHANGED channels
           ELSE /\ channels' = [channels EXCEPT ![c].closed = TRUE]
                /\ sse' = [sse EXCEPT ![b].pc = "range"]
                /\ UNCHANGED sseMutex
    /\ UNCHANGED <<sseClients, sseFrame>>

SseSpecInit == HmInit({<<X, EmptyLine>>}) /\ FsInit

SseNext ==
    \/ \E c \in Clients : SseRegister(c)
    \/ \E c \in Clients : SseReceive(c)
    \/ \E c \in Clients : SseDisconnect(c)
    \/ \E c \in Clients : SseUnregister(c)
    \/ \E c \in Clients : SseClose(c)
    \/ \E b \in Broadcasters : BroadcastBegin(b)
    \/ \E b \in Broadcasters : BroadcastNext(b)
    \/ \E b \in Broadcasters : BroadcastSend(b)
    \/ \E b \in Broadcasters : BroadcastDelete(b)
    \/ \E b \in Broadcasters : BroadcastClose(b)

SseSpec == SseSpecInit /\ [][SseNext]_vars

----------------------------------------------------------------------------
(* Properties of the write chain (WriterSpec)                               *)

Strategies == <<"direct", "temp", "powershell", "robocopy", "icacls">>

IsPrefix(s, t) == Len(s) <= Len(t) /\ SubSeq(t, 1, Len(s)) = s

\* the last operation ran writeHostsFile
Wrote == lastOp.w # NoEnv

\* strategies one to four fail in the run w
FirstFourFail(w) == Reached4(w) /\ w.robo # "ok"

\* the contents the step's operation may have meant to write
Intended ==
    CASE lastOp'.op = "RestoreOriginal" -> {originalHosts}
      [] lastOp'.op = "Cleanup" -> {cleanKidSafeSection(hostsFile)}
      [] OTHER -> {DesiredContent(c, o) :
                     c \in {hostsFile, originalHosts},
                     o \in Orders(blockedDomains')}

\* C4: a write tries direct, temp+rename, elevated shell, file-copy tool and
\* permission-reset+direct in this order, and returns an error only when all
\* five were attempted and failed
C4_ErrorOnlyAfterAllFive ==
    Wrote => /\ lastOp.tried # <<>>
             /\ IsPrefix(lastOp.tried, Strategies)
             /\ ~lastOp.ok => lastOp.tried = Strategies

\* a write returned an error although the fifth strategy was never started
C4_ErrorAfterFour ==
    /\ Wrote /\ ~lastOp.ok
    /\ lastOp.tried = <<"direct", "temp", "powershell", "robocopy">>
    /\ lastOp.w.roboTemp = "fail"

\* C5: however strategies one to four fail, if the fifth would succeed the
\* write returns success and the file holds the new content
C5_FifthStrategyRescues ==
    [][(Wrote' /\ FirstFourFail(lastOp'.w) /\ lastOp'.w.icacls = "ok")
          => (lastOp'.ok /\ hostsFile' \in Intended)]_vars

\* the fifth strategy would have succeeded and the write returned an error
C5_FifthNeverAsked ==
    /\ Wrote /\ ~lastOp.ok
    /\ FirstFourFail(lastOp.w) /\ lastOp.w.icacls = "ok"

\* C6: when all five strategies fail the write returns an error and the
\* hosts file is the same as before the call
C6_FailedWriteLeavesFile ==
    [][(Wrote' /\ FirstFourFail(lastOp'.w) /\ lastOp'.w.icacls # "ok")
          => (~lastOp'.ok /\ hostsFile' = hostsFile)]_vars

\* every strategy failed and the file is cut short
C6_TruncatedAfterFailure ==
    /\ lastOp.op = "UpdateBlockedDomains" /\ Wrote /\ ~lastOp.ok
    /\ lastOp.w.direct = "partial"
    /\ hostsFile = <<EmptyLine>>

----------------------------------------------------------------------------
(* Properties of the managed section (HostsSpec)                            *)

\* the last operation rewrote the section
Updated ==
    /\ lastOp.op \in {"AddBlockedDomain", "RemoveBlockedDomain",
                      "UpdateBlockedDomains"}
    /\ Wrote

StartAt(content) ==
    {i \in 1..Len(content) : Contains(content[i], StartMark)}

EndAt(content) ==
    {i \in 1..Len(content) : Contains(content[i], EndMark)}

AtMostOneSection(content) ==
    /\ Cardinality(StartAt(content)) <= 1
    /\ Cardinality(EndAt(content)) <= 1
    /\ \A i \in StartAt(content), j \in EndAt(content) : i < j

ExactlyOneSection(content) ==
    /\ Cardinality(StartAt(content)) = 1
    /\ Cardinality(EndAt(content)) = 1
    /\ \A i \in StartAt(content), j \in EndAt(content) : i < j

TwoSections == <<StartLine, EndLine, X, StartLine, EndLine>>

\* C7: after any sequence of Initialize, Add, Remove, Update, RestoreOriginal
\* and Cleanup from any initial content, the hosts file holds at most one
\* START line and at most one END line, START before END
C7_AtMostOneSection == hmState = "ready" => AtMostOneSection(hostsFile)

\* C7, as the code has it: a file that started with at most one section keeps
\* at most one, and whatever the file held, a successful Add, Remove or Update
\* leaves exactly one section
C7_OneSectionOnceWritten ==
    hmState = "ready" =>
        /\ AtMostOneSection(originalHosts) => AtMostOneSection(hostsFile)
        /\ (Updated /\ lastOp.ok) => ExactlyOneSection(hostsFile)

\* an update has rewritten a file that started with two sections
C7_TwoSectionsRewritten ==
    /\ originalHosts = TwoSections
    /\ Updated /\ lastOp.ok /\ lastOp.arg = <<WwwA>>
    /\ ExactlyOneSection(hostsFile)

\* the lines of a content that lie outside a START line .. END line pair
RECURSIVE OutsideSection(_)
OutsideSection(lines) ==
    IF lines = <<>> THEN <<>>
    ELSE IF Head(lines) = StartLine /\ \E j \in 2..Len(lines) : lines[j] = EndLine
         THEN LET end == CHOOSE j \in 2..Len(lines) :
                            /\ lines[j] = EndLine
                            /\ \A k \in 2..(j - 1) : lines[k] # EndLine
              IN  OutsideSection(SubSeq(lines, end + 1, Len(lines)))
         ELSE <<Head(lines)>> \o OutsideSection(Tail(lines))

\* C8: the lines outside the managed section before an Add, Remove or Update
\* are the lines outside it afterwards, unchanged and in the same order, with
\* no line added
C8_OutsideUntouched ==
    [][(Updated' /\ lastOp'.ok)
          => OutsideSection(hostsFile') = OutsideSection(hostsFile)]_vars

\* an update has removed a line of the user's that mentions the marker text
C8_UserLineRemoved ==
    /\ originalHosts = <<X, NoteLine, Y, EmptyLine>>
    /\ Updated /\ lastOp.ok
    /\ \A i \in 1..Len(hostsFile) : hostsFile[i] # NoteLine

\* the keys UpdateBlockedDomains(domains) is to block
Expected(domains) ==
    LET given == {ToLower(TrimSpace(domains[i])) : i \in 1..Len(domains)}
                    \ {<<>>}
    IN  given \cup {<<WWW>> \o d : d \in {g \in given : ~HasPrefix(g, WWW)}}

C10_SecondUpdateChangesNothing ==
    [][(/\ lastOp.op = "UpdateBlockedDomains" /\ lastOp.ok
        /\ lastOp'.op = "UpdateBlockedDomains" /\ lastOp'.ok
        /\ lastOp'.arg = lastOp.arg)
          => hostsFile' = hostsFile]_vars

\* two updates with the empty list in a row: four blank lines before START
C10_GrownBySecondUpdate ==
    /\ lastOp.op = "UpdateBlockedDomains" /\ lastOp.ok /\ lastOp.arg = <<>>
    /\ hostsFile = <<QuoteLine, EmptyLine, EmptyLine, EmptyLine, EmptyLine,
                     StartLine, EndLine, EmptyLine>>

----------------------------------------------------------------------------
(* Properties of the reconciler (Spec)                                      *)

PollOps == {"pollNoData", "pollUnchanged", "pollChanged"}

WithWww(S) == S \cup {<<WWW>> \o d : d \in {x \in S : ~HasPrefix(x, WWW)}}

\* the normalized domains of the active records of a remote map
SnapshotDomains(data) ==
    {normalizeDomain(data[k].URL) : k \in ActiveKeys(data)} \ {<<>>}

\* the domains of the firebase-sync rows
FirebaseDomains ==
    {r.domain : r \in {x \in BagToSet(rows) : x.category = FirebaseSync}}

OtherRows == {x \in BagToSet(rows) : x.category # FirebaseSync}

\* C1: after the polling loop has processed a snapshot, the blocked-domain
\* set of the HostsManager is the normalized domains of the snapshot's active
\* records with their www variants (and nothing else when there are no rows
\* of another category), and the firebase-sync rows are exactly those domains
C1_ReconcilerConverges ==
    lastOp.op = "pollChanged" =>
        /\ WithWww(SnapshotDomains(blockedUrls)) \subseteq blockedDomains
        /\ OtherRows = {}
              => blockedDomains = WithWww(SnapshotDomains(blockedUrls))
        /\ FirebaseDomains = SnapshotDomains(blockedUrls)

\* a snapshot with a capital-letter url has been processed: the row keeps the
\* capitals, the HostsManager blocks the lower-case domain
C1_RowKeepsCapitals ==
    /\ lastOp.op = "pollChanged" /\ blockedUrls = SnapUpper
    /\ FirebaseDomains = {UrlUpper}
    /\ blockedDomains = {A, WwwA}

\* every candidate path of the step's tick answered with an error or nothing
NoDataTick ==
    /\ lastOp'.op \in PollOps
    /\ \A i \in 1..Len(lastOp'.arg) : lastOp'.arg[i].kind \in {"error", "empty"}

\* C2: a tick in which every candidate path returns an error or empty data
\* leaves the blocked-domain set, the hosts file, the block_rules rows and
\* the last-seen remote map as they were
C2_NoDataNoClear ==
    [][NoDataTick
          => UNCHANGED <<blockedDomains, hostsFile, rows, blockedUrls>>]_vars

\* a tick without data in a state that has domains to lose
C2_NoDataWhileBlocking ==
    /\ lastOp.op = "pollNoData"
    /\ lastOp.arg[2].kind = "empty"
    /\ blockedUrls = SnapAB
    /\ blockedDomains = WithWww({A, <<"b.com">>})
    /\ FirebaseDomains = {A, <<"b.com">>}
    /\ DOMAIN VerifyHostsFile(hostsFile) = blockedDomains

ManualRow(table, d) ==
    \E r \in BagToSet(table) :
        r.domain = d /\ r.category # FirebaseSync /\ r.is_active

InSection(content, d) ==
    LET found == VerifyHostsFile(content)
    IN  /\ WithWww({d}) \subseteq DOMAIN found
        /\ \A x \in WithWww({d}) : found[x]

Mentions(results, d) ==
    \E i \in 1..Len(results) :
        /\ results[i].kind = "data"
        /\ \E k \in DOMAIN results[i].urls :
              normalizeDomain(results[i].urls[k].URL) = d

\* C3: a domain with an active row of a category other than firebase-sync,
\* present in the managed section with its www variant, still has its row and
\* is still in the section after a tick whose remote data does not mention it
C3_ManualRuleSurvivesTick ==
    [][\A d \in {r.domain : r \in OtherRows} :
          (/\ lastOp'.op \in PollOps
           /\ ManualRow(rows, d) /\ InSection(hostsFile, d)
           /\ ~Mentions(lastOp'.arg, d))
             => (ManualRow(rows', d) /\ InSection(hostsFile', d))]_vars

\* a tick with unrelated data has left the hosts file cut short while the
\* manual rule has its row
C3_ManualRuleCutOut ==
    /\ lastOp.op = "pollChanged" /\ ~lastOp.ok /\ lastOp.w.direct = "partial"
    /\ blockedUrls = SnapUpper
    /\ ManualRow(rows, <<"b.com">>)
    /\ hostsFile = <<EmptyLine>>

----------------------------------------------------------------------------
(* Properties of the www variants (HostsSpec)                               *)

\* the domains VerifyHostsFile finds in the managed section
SectionDomains(content) == DOMAIN VerifyHostsFile(content)

\* the domains without the www. prefix a set of domains is about
BareDomains(S) ==
    {d \in S : ~HasPrefix(d, WWW)} \cup {Tail(d) : d \in {x \in S : HasPrefix(x, WWW)}}

\* C11: after any sequence of Add, Remove and Update calls with arbitrary
\* arguments, every blocked domain d that does not start with www. has www.d
\* blocked too, and the managed section holds a line for d if and only if it
\* holds one for www.d
C11_WwwVariantBlocked ==
    (Updated /\ lastOp.ok) =>
        /\ \A d \in blockedDomains :
              ~HasPrefix(d, WWW) => (<<WWW>> \o d) \in blockedDomains
        /\ \A d \in BareDomains(SectionDomains(hostsFile)) :
              d \in SectionDomains(hostsFile)
                 <=> (<<WWW>> \o d) \in SectionDomains(hostsFile)

\* RemoveBlockedDomain("www.a.com") has left a.com blocked without www.a.com
C11_WwwVariantUnblocked ==
    /\ lastOp.op = "RemoveBlockedDomain" /\ lastOp.ok /\ lastOp.arg = WwwA
    /\ blockedDomains = {A}
    /\ SectionDomains(hostsFile) = {A}

----------------------------------------------------------------------------
(* Properties of the rule handlers and of a failed cycle (Spec)             *)

\* the normalized domains of the active rows of every category
ActiveRowDomains(table) ==
    {normalizeDomain(r.domain) : r \in {x \in BagToSet(table) : x.is_active}}
        \ {<<>>}

\* C12: whenever the last hosts write succeeded, the domains blocked in the
\* managed section are the normalized domains of all active block_rules rows
\* of every category (with their www variants); deleting one rule does not
\* unblock a domain that another active row still has
C12_SectionIsUnionOfRows ==
    (Wrote /\ lastOp.ok) =>
        SectionDomains(hostsFile) = WithWww(ActiveRowDomains(rows))

\* the manual rule for b.com was deleted: the firebase-sync row of b.com is
\* still active and b.com has left the managed section
C12_DeleteUnblocksSharedDomain ==
    /\ lastOp.op = "handleDeleteRule" /\ lastOp.ok
    /\ lastOp.arg = Row(<<"b.com">>, "manual")
    /\ Row(<<"b.com">>, FirebaseSync) \in BagToSet(rows)
    /\ <<"b.com">> \notin SectionDomains(hostsFile)

\* the status the rule handlers answer with: the error of the HostsManager is
\* logged and not looked at again
ResponseStatus(o) ==
    CASE o.op = "handleAddRule" ->
            IF o.w = NoEnv THEN "StatusBadRequest" ELSE "StatusCreated"
      [] o.op = "handleDeleteRule" -> "StatusOK"
      [] OTHER -> "-"

\* C13: handleAddRule and handleDeleteRule answer with success only when the
\* hosts write of the request succeeded and the managed section reflects the
\* add or the delete; when every write strategy fails the request fails
C13_SuccessMeansApplied ==
    ResponseStatus(lastOp) \in {"StatusCreated", "StatusOK"} =>
        /\ lastOp.ok
        /\ lastOp.op = "handleAddRule"
              => InSection(hostsFile, normalizeDomain(lastOp.arg[1]))
        /\ lastOp.op = "handleDeleteRule"
              => normalizeDomain(lastOp.arg.domain)
                    \notin SectionDomains(hostsFile)

\* POST /rules answered 201 although no strategy could write the hosts file:
\* the row is in block_rules, the domain is not in the managed section
C13_CreatedButNotWritten ==
    /\ lastOp.op = "handleAddRule" /\ ResponseStatus(lastOp) = "StatusCreated"
    /\ ~lastOp.ok /\ lastOp.w.direct = "open"
    /\ ManualRow(rows, <<"b.com">>)
    /\ <<"b.com">> \notin SectionDomains(hostsFile)

\* the firebase-sync rows of a table
FirebaseRows(table) ==
    Select(table, {r \in BagToSet(table) : r.category = FirebaseSync})

\* C14: a reconciliation cycle whose hosts write fails leaves the hosts file
\* and the firebase-sync rows of block_rules as they were before the cycle
C14_FailedCycleNotHalfApplied ==
    [][(lastOp'.op = "pollChanged" /\ ~lastOp'.ok)
          => /\ hostsFile' = hostsFile
             /\ FirebaseRows(rows') = FirebaseRows(rows)]_vars

\* a cycle could not touch the hosts file and has written its rows all the
\* same: block_rules has b.com, the managed section does not
C14_RowsWithoutHosts ==
    /\ lastOp.op = "pollChanged" /\ ~lastOp.ok /\ lastOp.w.direct = "open"
    /\ blockedUrls = SnapB
    /\ FirebaseDomains = {<<"b.com">>}
    /\ <<"b.com">> \notin SectionDomains(hostsFile)

\* the domains extractDomain gives for the active records of a remote map
ExtractedDomains(data) ==
    {extractDomain(data[k].URL) : k \in ActiveKeys(data)} \ {<<>>}

\* the step is a tick that obtained remote data and whose hosts write, if it
\* made one, succeeded
DataTick ==
    /\ lastOp'.op \in {"pollUnchanged", "pollChanged"}
    /\ lastOp'.ok

\* C16: after a firebase-sync row was deleted through the API while the
\* remote store still lists its url as active, the next tick that obtains
\* remote data restores the row as active and the domain in the managed
\* section, although the remote data has not changed
C16_NextTickRestoresRow ==
    [][DataTick =>
          \A d \in ExtractedDomains(FoundData(lastOp'.arg).urls) :
              /\ Row(d, FirebaseSync) \in BagToSet(rows')
              /\ InSection(hostsFile', normalizeDomain(d))]_vars

\* the firebase-sync row of b.com was deleted and a tick that found b.com
\* still active has left it deleted and unblocked
C16_DeletedRowStaysDeleted ==
    /\ lastOp.op = "pollUnchanged"
    /\ blockedUrls = SnapB /\ FoundData(lastOp.arg).urls = SnapB
    /\ FirebaseDomains = {}
    /\ <<"b.com">> \notin SectionDomains(hostsFile)

----------------------------------------------------------------------------
(* Properties of the ways to synchronize (SyncSpec)                         *)

\* a table with at most one row for each pair of normalized domain and
\* category
OneRowPerPair(table) ==
    \A r \in BagToSet(table) :
        /\ CopiesIn(r, table) = 1
        /\ \A q \in BagToSet(table) :
              (normalizeDomain(q.domain) = normalizeDomain(r.domain)
                 /\ q.category = r.category) => q = r

\* C15: in every reachable state block_rules holds at most one row for each
\* pair of normalized domain and category, whatever handleAddRule, the
\* reconciler and handleManualFirebaseSync were given
C15_OneRowPerDomainAndCategory == OneRowPerPair(rows)

\* a tick has processed a snapshot with two records for a.com: block_rules
\* holds two firebase-sync rows for a.com
C15_TwoRowsForOneDomain ==
    /\ lastOp.op = "pollChanged" /\ lastOp.ok
    /\ blockedUrls = SnapTwin
    /\ CopiesIn(Row(A, FirebaseSync), rows) = 2

\* the step is a tick or a ForceSync in which the first path with data
\* returned a map without an active record, and no hosts write failed
NoActiveSync ==
    /\ lastOp'.op \in PollOps \cup {"ForceSync"}
    /\ FoundData(lastOp'.arg).found
    /\ ActiveKeys(FoundData(lastOp'.arg).urls) = {}
    /\ Wrote' => lastOp'.ok

\* C18: when a candidate path returns a non-empty map without an active
\* record, the polling cycle, and ForceSync likewise, remove every
\* firebase-sync row and their domains leave the managed section; a poll
\* that found no data at all changes neither
C18_NoActiveRecordClears ==
    [][/\ NoActiveSync
          => /\ FirebaseRows(rows') = EmptyBag
             /\ SectionDomains(hostsFile') = WithWww(ActiveRowDomains(rows'))
       /\ NoDataTick => UNCHANGED <<rows, hostsFile>>]_vars

\* ForceSync found only an inactive record and has left the firebase-sync
\* row of b.com and its lines in the managed section
C18_ForceSyncKeepsRows ==
    /\ lastOp.op = "ForceSync" /\ ~lastOp.ok
    /\ FoundData(lastOp.arg).urls = SnapOff
    /\ FirebaseDomains = {<<"b.com">>}
    /\ InSection(hostsFile, <<"b.com">>)

----------------------------------------------------------------------------
(* Properties of the reconciler against the remote store (ReconcileSpec)    *)

\* d has a firebase-sync row and the remote store has no active record for it
Disappeared(d) ==
    /\ Row(d, FirebaseSync) \in BagToSet(rows)
    /\ d \notin ExtractedDomains(remote)

\* d has no firebase-sync row and is not in the managed section
Reconciled(d) ==
    /\ Row(d, FirebaseSync) \notin BagToSet(rows)
    /\ d \notin SectionDomains(hostsFile)

----------------------------------------------------------------------------
(* Properties of the calls under the mutex (LockSpec)                       *)

\* the goroutines inside a call, i.e. between Lock and the return
InCall == {g \in Goroutines : calls[g].pc # "idle"}

\* at most one goroutine is inside a call, and it holds the mutex
MutualExclusion ==
    /\ Cardinality(InCall) <= 1
    /\ \A g \in InCall : mutex = g

\* the step changes the hosts file to the content that the one call in
\* progress built from the content the file had until this step
WholeWrite ==
    \E g \in Goroutines :
        /\ calls[g].pc = "computed" /\ calls'[g].pc = "idle"
        /\ calls[g].read = hostsFile
        /\ hostsFile' = calls[g].content

\* C19: under every interleaving of the polling goroutine and a handler at
\* most one call is between reading the hosts file and finishing its write,
\* and the file content is always the complete output of one operation
\* applied to the previous complete content
C19_WritesAreSerialized ==
    /\ []MutualExclusion
    /\ [][hostsFile' # hostsFile => WholeWrite]_vars

\* the polling goroutine held the mutex alone, its write was cut short, and
\* the handler now works on the file it left
C19_CutShortUnderLock ==
    /\ lastOp.op = "UpdateBlockedDomains" /\ ~lastOp.ok
    /\ lastOp.w.direct = "partial"
    /\ hostsFile = <<EmptyLine>>
    /\ mutex = "api" /\ calls["api"].pc = "computed"
    /\ calls["api"].read = <<EmptyLine>>

----------------------------------------------------------------------------
(* Properties of Start, Stop and the loops (StopSpec)                       *)

AllReturned == \A l \in Loops : loops[l].pc = "returned"

AtMostOneFurther == \A l \in Loops : loops[l].further <= 1

\* C20: after Stop has cancelled the context every polling loop (blocked
\* URLs, time rules, status update) terminates, and none of them starts more
\* than one further poll cycle after the cancellation
C20_LoopsStopWithinOneCycle ==
    /\ ctxDone ~> AllReturned
    /\ []AtMostOneFurther

\* the blocked-URL loop is in the second cycle it started after the
\* cancellation
C20_SecondFurtherCycle ==
    /\ ctxDone /\ ~isListening
    /\ loops["blockedUrls"].pc = "cycle"
    /\ loops["blockedUrls"].further = 2

----------------------------------------------------------------------------
(* Properties of a call that waits for a command (CommandSpec)              *)

\* C21: when the external command of a write strategy never returns,
\* writeHostsFile still returns, so the call gives the mutex back and the
\* polling loop and the handlers that need it go on
C21_HungCommandReturns ==
    \A g \in Goroutines : calls[g].pc = "command" ~> calls[g].pc = "idle"

\* the polling goroutine holds the mutex and waits for its command; the
\* handler has no call in progress and cannot lock
C21_WaitsUnderLock ==
    /\ calls["poller"].pc = "command" /\ mutex = "poller"
    /\ calls["api"].pc = "idle" /\ ~CanLock(mutex)

----------------------------------------------------------------------------
(* Properties of RestoreOriginal (WriterSpec)                               *)

\* two contents that differ in their line ends only: with or without CR
\* before the line feed, with or without a line feed after the last line
SameLines(a, b) == copyFile(a) = copyFile(b)

\* C22: after RestoreOriginal has returned success the hosts file holds the
\* content captured at Initialize, up to line ends, and the set of blocked
\* domains is empty; when the restore write fails RestoreOriginal returns an
\* error and the set is not cleared
C22_RestoreGivesOriginal ==
    [][lastOp'.op = "RestoreOriginal" =>
          IF lastOp'.ok
          THEN SameLines(hostsFile', originalHosts') /\ blockedDomains' = {}
          ELSE blockedDomains' = blockedDomains]_vars

\* RestoreOriginal has returned success after the PowerShell strategy wrote
\* the file, and the file is not the content captured at Initialize
C22_RestoredWithBom ==
    /\ lastOp.op = "RestoreOriginal" /\ lastOp.ok
    /\ lastOp.tried = <<"direct", "temp", "powershell">>
    /\ blockedDomains = {}
    /\ ~SameLines(hostsFile, originalHosts)
    /\ hostsFile[1][1] = BOM

----------------------------------------------------------------------------
(* Properties of the startup (StartupSpec)                                  *)

InitializeFailed == lastOp.op = "Initialize" /\ ~lastOp.ok

\* C23: when the hosts file cannot be read during Initialize, Initialize
\* returns an error, NewCoreService fails, and nothing happens afterwards:
\* no hosts write, no request served, no polling loop
C23_FailedInitializeIsFatal ==
    /\ [](InitializeFailed =>
            /\ hmState = "failed" /\ originalHosts = <<EmptyLine>>
            /\ ~isListening /\ \A l \in Loops : loops[l] = NoLoop)
    /\ [][~InitializeFailed]_vars

\* Initialize has returned the read error
C23_ReadFailed ==
    /\ InitializeFailed
    /\ hmState = "failed"
    /\ hostsFile = <<X, EmptyLine>> /\ blockedDomains = {}

----------------------------------------------------------------------------
(* Properties of normalizeDomain (NormalizeSpec)                            *)

\* C24: normalizeDomain(normalizeDomain(x)) = normalizeDomain(x) for every
\* raw string x, also with repeated www. prefixes, ports, schemes, paths,
\* queries and capitals
C24_NormalizeIdempotent ==
    lastOp.op = "normalizeDomain" => normalizeDomain(lastOp.arg) = lastOp.arg

\* the normalized form of www.www.a.com is www.a.com, which normalizes to
\* a.com
C24_SecondWwwRemoved ==
    /\ lastOp.op = "normalizeDomain"
    /\ lastOp.arg = <<WWW, "a.com">>
    /\ normalizeDomain(lastOp.arg) = <<"a.com">>

----------------------------------------------------------------------------
(* Properties of the rule handlers on raw domains (RuleSpec)                *)

HasWhitespace(d) == Contains(d, SP) \/ Contains(d, CR)

\* C25: normalizeDomain returns the empty string or a hostname without
\* whitespace, so what handleAddRule stores in block_rules and hands to the
\* HostsManager is never empty and never contains whitespace
C25_NoWhitespaceStored ==
    /\ \A r \in BagToSet(rows) : r.domain # <<>> /\ ~HasWhitespace(r.domain)
    /\ \A d \in blockedDomains : d # <<>> /\ ~HasWhitespace(d)

\* "not a domain" has been accepted: it is a row of block_rules and a line
\* of the hosts file
C25_PhraseStored ==
    /\ lastOp.op = "handleAddRule" /\ lastOp.ok
    /\ Row(<<"not", SP, "a", SP, "domain">>, "manual") \in BagToSet(rows)
    /\ \E i \in 1..Len(hostsFile) :
          hostsFile[i] = <<BlockedIP, SP, "not", SP, "a", SP, "domain">>

----------------------------------------------------------------------------
(* Properties of the adaptive interval (BackoffSpec)                        *)

\* the step is a tick that detects no change: no data at any path, or the
\* map seen last
NoChangeTick == lastOp'.op \in {"pollNoData", "pollUnchanged"}

\* interval * 1.2, at most maxInterval
Grown(interval) ==
    IF (interval * 12) \div 10 > MaxInterval THEN MaxInterval
    ELSE (interval * 12) \div 10

\* C26: every polling cycle that detects no change multiplies the poll
\* interval by 1.2, up to the cap of 30 s, from the first such cycle after
\* the base interval on
C26_EveryNoChangeCycleGrows ==
    [][NoChangeTick => pollInterval' = Grown(pollInterval)]_vars

\* the first cycle without a change has left the interval at its base
C26_FirstNoChangeKeepsBase ==
    /\ lastOp.op \in {"pollNoData", "pollUnchanged"}
    /\ consecutiveNoChanges = 1
    /\ pollInterval = PollInterval

----------------------------------------------------------------------------
(* Properties of the candidate paths (PathSpec)                             *)

\* the candidate paths of a tick that returned a map with records
NonEmptyPaths(results) ==
    {i \in 1..Len(results) :
        results[i].kind = "data" /\ DOMAIN results[i].urls # {}}

\* the smallest number of a set of numbers
Least(S) == CHOOSE i \in S : \A j \in S : i <= j

\* the path the tick before this step found its data at still returns a map
\* with records in the tick of this step
PreferredStillGood ==
    /\ lastOp.op \in PollOps /\ lastOp'.op \in PollOps
    /\ NonEmptyPaths(lastOp.arg) # {}
    /\ Least(NonEmptyPaths(lastOp.arg)) \in NonEmptyPaths(lastOp'.arg)

\* C28: once a cycle has found data at a candidate path, a later cycle uses
\* the data of that path as long as it still returns data, even if a path
\* listed before it has data by now
C28_WorkingPathPreferred ==
    [][PreferredStillGood
          => blockedUrls' = lastOp'.arg[Least(NonEmptyPaths(lastOp.arg))].urls]_vars

\* the tick took the map of the first path although the third path, the
\* working path of an earlier tick, still returned its map
C28_EarlierPathTaken ==
    /\ lastOp.op = "pollChanged"
    /\ lastOp.arg[1] = PathData(SnapB) /\ lastOp.arg[3] = PathData(SnapA)
    /\ blockedUrls = SnapB
    /\ Len(hostsFile) > 8

\* C29: an error at a candidate path does not end the cycle; when some
\* candidate returns data, the cycle processes the data of the first
\* candidate that does, whatever the candidates before it answered
C29_ErrorsDoNotAbort ==
    (lastOp.op \in PollOps /\ NonEmptyPaths(lastOp.arg) # {})
        => /\ lastOp.op # "pollNoData"
           /\ blockedUrls = lastOp.arg[Least(NonEmptyPaths(lastOp.arg))].urls

\* a cycle has processed the map of the last path after errors and an empty
\* answer at the five paths before it
C29_DataAfterErrors ==
    /\ lastOp.op = "pollChanged"
    /\ \A i \in 1..5 : lastOp.arg[i].kind \in {"error", "empty"}
    /\ lastOp.arg[1].kind = "error"
    /\ lastOp.arg[6] = PathData(SnapAB)
    /\ blockedUrls = SnapAB
    /\ FirebaseDomains = {A, <<"b.com">>}

----------------------------------------------------------------------------
(* Properties of the change detection (CycleSpec)                           *)

\* two maps differ in their key sets, or in the url or the status of a key
Differs(old, new) ==
    \/ DOMAIN old # DOMAIN new
    \/ \E k \in DOMAIN old \cap DOMAIN new :
          old[k].URL # new[k].URL \/ old[k].Status # new[k].Status

\* the step is a cycle of the blocked-URL loop that obtained data
DataCycle ==
    /\ loops[BlockedUrlsLoop].pc = "cycle"
    /\ \/ Differs(blockedUrls, blockedUrls')
       \/ consecutiveNoChanges' = consecutiveNoChanges + 1
    /\ NonEmptyPaths(lastOp'.arg) # {}

\* the map the cycle of the step fetched
Fetched == lastOp'.arg[Least(NonEmptyPaths(lastOp'.arg))].urls

----------------------------------------------------------------------------
(* Properties of cycles on maps with null records (CrashSpec)               *)

\* C31: no failed fetch, null record, failed hosts write or failed sync
\* stops the polling task: once started, the blocked-URL loop is at its
\* select or in a cycle until the cancellation
C31_LoopKeepsRunning ==
    (isListening /\ ~ctxDone) => loops[BlockedUrlsLoop].pc \in {"select", "cycle"}

\* the cycle after the one that stored a map with a null record has
\* panicked in the change detection, and the loops are gone
C31_PanicOnNullRecord ==
    /\ lastOp.op = "pollPanic"
    /\ blockedUrls = SnapNull
    /\ FoundData(lastOp.arg).urls = SnapNull
    /\ isListening /\ ~ctxDone
    /\ loops[BlockedUrlsLoop].pc = "crashed"

----------------------------------------------------------------------------
(* Properties of the single statements (StepSpec)                           *)

\* the elements of a list
Elems(seq) == {seq[i] : i \in 1..Len(seq)}

\* a Changed cycle is in progress
InCycle == calls["poller"].op = "cycle"

\* the domains that were active in the last-seen map when the cycle in
\* progress began and are active in the map it fetched
KeptDomains == Elems(calls["poller"].read) \cap Elems(ActiveUrls(blockedUrls))

\* C32: a domain that is active in the remote data before and after a
\* Changed cycle is, at every point of the cycle and whatever a concurrent
\* syncRulesToHosts does, in a firebase-sync row of block_rules and in the
\* managed section of the hosts file (as long as the service is not shut
\* down)
C32_KeptDomainStaysBlocked ==
    (InCycle /\ ~ctxDone) =>
        \A d \in KeptDomains :
            /\ Row(d, FirebaseSync) \in BagToSet(rows)
            /\ InSection(hostsFile, normalizeDomain(d))

\* during the cycle from {a.com} to {a.com, b.com}, handleSystemConfigure
\* has read the table between the DELETE and the INSERTs and has written a
\* hosts file without a.com
C32_UnblockedByConfigure ==
    /\ InCycle /\ calls["poller"].pc = "deleted" /\ ~ctxDone
    /\ KeptDomains = {UrlA}
    /\ lastOp.op = "handleSystemConfigure" /\ lastOp.ok
    /\ UrlA \notin Elems(lastOp.arg)
    /\ UrlA \notin SectionDomains(hostsFile)

\* neither goroutine is inside a cycle or a handler
BothIdle == \A g \in Goroutines : calls[g].pc = "idle"

\* C35: once a manual add and a Changed cycle that ran at the same time
\* have both finished, the added domain is in the managed section of the
\* hosts file: the cycle does not erase it
C35_ManualAddNotLost ==
    (BothIdle /\ ~ctxDone) =>
        \A r \in BagToSet(rows) :
            (r.category = "manual" /\ r.is_active)
                => InSection(hostsFile, normalizeDomain(r.domain))

\* the cycle read the table before the INSERT of c.com and wrote its list
\* after AddBlockedDomain: the row is there, the hosts lines are gone
C35_AddErasedByCycle ==
    /\ BothIdle /\ ~ctxDone
    /\ lastOp.op = "cycleWrite" /\ lastOp.ok
    /\ Row(<<"c.com">>, "manual") \in BagToSet(rows)
    /\ <<"c.com">> \notin blockedDomains
    /\ <<"c.com">> \notin SectionDomains(hostsFile)

\* the hosts file holds no line of a managed section
NoSection(content) == StartAt(content) = {} /\ EndAt(content) = {}

\* C38: once Shutdown has cancelled the context and Cleanup has left the
\* hosts file without a managed section, no later step writes one
C38_NoSectionAfterCleanup ==
    [][(ctxDone /\ NoSection(hostsFile)) => NoSection(hostsFile')]_vars

\* a cycle that was in progress at the shutdown has written the managed
\* section again after Cleanup
C38_SectionBackAfterShutdown ==
    /\ ctxDone /\ ~isListening
    /\ lastOp.op = "cycleWrite" /\ lastOp.ok
    /\ backupFile = NoFile
    /\ ExactlyOneSection(hostsFile)
    /\ UrlA \in SectionDomains(hostsFile)

----------------------------------------------------------------------------
(* Properties of a failed write and of a restart (HostsSpec)                *)

\* the step is an Add, Remove or Update call of the HostsManager whose
\* hosts write failed
FailedSetCall ==
    /\ lastOp'.op \in {"AddBlockedDomain", "RemoveBlockedDomain",
                       "UpdateBlockedDomains"}
    /\ ~lastOp'.ok
    /\ lastOp'.tried # <<>>

\* C33: when the hosts write fails inside AddBlockedDomain,
\* RemoveBlockedDomain or UpdateBlockedDomains, the blocked-domain set in
\* memory is left as it was before the call
C33_FailedWriteKeepsSet ==
    [][FailedSetCall => blockedDomains' = blockedDomains]_vars

\* AddBlockedDomain has failed to write, and IsBlocked answers true for a
\* domain that the hosts file does not hold
C33_BlockedInMemoryOnly ==
    /\ lastOp.op = "AddBlockedDomain" /\ ~lastOp.ok
    /\ lastOp.tried # <<>>
    /\ A \in blockedDomains
    /\ A \notin SectionDomains(hostsFile)

\* the lines of a file content
Lines(content) == {content[i] : i \in 1..Len(content)}

\* C39: after a start on a hosts file that an earlier run left with its
\* managed section, a successful RestoreOriginal gives a hosts file with no
\* managed section and no block line of the agent's
C39_RestoreRemovesSection ==
    (lastOp.op = "RestoreOriginal" /\ lastOp.ok) =>
        /\ StartLine \notin Lines(hostsFile)
        /\ EndLine \notin Lines(hostsFile)
        /\ SectionDomains(hostsFile) = {}

\* RestoreOriginal has copied back the backup that Initialize took of the
\* file with the section of the earlier run: www.b.com is still blocked
C39_SectionRestored ==
    /\ lastOp.op = "RestoreOriginal" /\ lastOp.ok
    /\ originalHosts =
          <<X, StartLine, <<BlockedIP, SP>> \o WwwB, EndLine, Y, EmptyLine>>
    /\ hostsFile = originalHosts
    /\ backupFile = NoFile
    /\ blockedDomains = {}
    /\ WwwB \in SectionDomains(hostsFile)

----------------------------------------------------------------------------
(* Properties of a cycle after a failed one (Spec)                          *)

\* the step is a tick that fetches the map of the tick before it, which was
\* a Changed cycle whose hosts write failed
SameMapAfterFailure ==
    /\ lastOp.op = "pollChanged" /\ ~lastOp.ok
    /\ lastOp'.op \in PollOps
    /\ consecutiveNoChanges' # consecutiveNoChanges \/ lastOp' # lastOp
    /\ FoundData(lastOp'.arg).found
    /\ FoundData(lastOp'.arg).urls = FoundData(lastOp.arg).urls

\* C34: a Changed cycle that failed to update the hosts file is retried: the
\* next cycle that fetches the same map applies it again
C34_FailedChangeRetried ==
    [][SameMapAfterFailure => lastOp'.op = "pollChanged"]_vars

\* the cycle after the failed one has found the map unchanged: the domain
\* has its row and is the only record of the last-seen map, and the hosts
\* file does not block it
C34_FailedChangeForgotten ==
    /\ lastOp.op = "pollUnchanged"
    /\ consecutiveNoChanges = 1
    /\ blockedUrls = SnapB /\ FoundData(lastOp.arg).urls = SnapB
    /\ FirebaseDomains = {<<"b.com">>}
    /\ <<"b.com">> \notin SectionDomains(hostsFile)

----------------------------------------------------------------------------
(* Properties of the manual rules under the ways to synchronize (SyncSpec)  *)

\* the step is a synchronization that reported success
SyncDone ==
    /\ lastOp'.op \in {"handleManualFirebaseSync", "ForceSync", "pollChanged"}
    /\ lastOp'.ok
    /\ hostsFile' # hostsFile

\* C36: after every way to synchronize (the manual sync, ForceSync, a
\* polling cycle) each domain with an active row of another category than
\* firebase-sync is still in the managed section of the hosts file
C36_SyncKeepsManualDomains ==
    [][SyncDone =>
          \A r \in BagToSet(rows') :
              (r.category # FirebaseSync /\ r.is_active)
                  => InSection(hostsFile', normalizeDomain(r.domain))]_vars

\* the manual sync has rewritten the managed section from the remote
\* domains only: the manual row of b.com is there, its hosts lines are not
C36_ManualDomainDropped ==
    /\ lastOp.op = "handleManualFirebaseSync" /\ lastOp.ok
    /\ Row(<<"b.com">>, "manual") \in BagToSet(rows)
    /\ A \in SectionDomains(hostsFile)
    /\ <<"b.com">> \notin SectionDomains(hostsFile)
    /\ <<"b.com">> \notin blockedDomains

----------------------------------------------------------------------------
(* Properties of Start and Stop called again (LifecycleSpec)                *)

\* a loop is polling: its goroutine is at its select or in a cycle
Polling(l) == loops[l].pc \in {"select", "cycle"}

\* a Start that returned the error has launched nothing and changed nothing
\* of the service
RefusedStartLaunchesNothing ==
    [][(lastOp'.op = "Start" /\ ~lastOp'.ok /\ lastOp' # lastOp)
           => (loops' = loops /\ isListening' = isListening /\ ctxDone' = ctxDone)]_vars

\* C37: whenever the service says it is listening its three loops are
\* running, so after Start, Stop, Start the loops are polling again
C37_ListeningMeansPolling ==
    isListening => \A l \in Loops : Polling(l)

\* after Start, Stop and Start the new loops have found the context
\* cancelled and have returned, and the service still says it is listening
C37_ListeningWithoutLoops ==
    /\ isListening /\ ctxDone
    /\ lastOp.op = "Start" /\ lastOp.ok
    /\ \A l \in Loops : loops[l].pc = "returned"

----------------------------------------------------------------------------
(* Properties of the SSE clients and the broadcasts (SseSpec)               *)

\* a goroutine has closed a channel that was closed already
ClosedTwice == \E g \in Clients \cup Broadcasters : sse[g].pc = "panicClose"

\* a broadcast has sent to a channel that was closed
SentAfterClose == \E b \in Broadcasters : sse[b].pc = "panicSend"

\* a broadcast has deleted a client from the map without the write lock
DeletedUnderReadLock ==
    \E b \in Broadcasters : sse[b].pc = "close" /\ sseMutex.writer # b

\* the handler of a closed channel is still in its loop and has written an
\* event from the zero value
SpinsOnClosedChannel ==
    \E c \in Clients :
        channels[c].closed /\ sse[c].pc = "select" /\ sse[c].cur = ""

\* C40: no channel is closed twice, none is sent to after it was closed, and
\* a client leaves the map only under the write lock of sseMutex
C40_ChannelsClosedOnce ==
    ~ClosedTwice /\ ~SentAfterClose /\ ~DeletedUnderReadLock

\* a broadcast dropped the client whose buffer was full and closed its
\* channel; the client's handler then returned and closed the channel again
C40_HandlerClosesDroppedChannel ==
    \E c \in Clients :
        /\ sse[c].pc = "panicClose"
        /\ channels[c].closed
        /\ \A b \in Broadcasters : sse[b].pc \notin {"panicClose", "panicSend"}

====
